---- MODULE Spec2Model ----
(***************************************************************************)
(* A model of the AI control plane: the decision engine (ai_engine.py),    *)
(* the decision query (decisionFunction.py) over the Fast Store, the       *)
(* Snapshot table and the Durable Store, the signal consumer               *)
(* (queue/consumer.py), the aggregate update as interleaved Fast Store     *)
(* calls (realtime_aggregates.py) and the threshold tuner                  *)
(* (background_analyzer.py, threshold_manager.py).                         *)
(*                                                                         *)
(* Numbers.  Python floats that are quotients of counters (the average     *)
(* latency sum/count, the error rate errors/count, the rate count/60) are  *)
(* kept as exact rationals [n, d] and every comparison of the code is      *)
(* cross-multiplied.  circuit_breaker_error_rate is held in hundredths     *)
(* (0.30 is 30).  The factors 0.8 and 0.5 of the code are 4/5 and 1/2.     *)
(***************************************************************************)
EXTENDS Integers, Sequences, FiniteSets, Bags, TLC

VARIABLES
    thresholdStore,  \* the ai_thresholds row of the endpoint, or NoRecord
    call,            \* the latest engine call: engine, inputs, thresholds read, verdict
    memo,            \* an earlier engine call, remembered (history)
    clock,           \* wall time in minutes (time.time() // 60)
    redisUp,         \* whether the Fast Store answers
    agg,             \* Fast Store: window -> the rt_agg document of the endpoint
    bucket1m,        \* Fast Store: the endpoint's latest 1m bucket
    custBucket,      \* Fast Store: the customer's latest 1m bucket
    snapshots,       \* Durable Store: aggregate_snapshots rows
    signals,         \* Durable Store: signals rows of (service, endpoint), newest first
    sent,            \* number of signals processed so far
    decision,        \* the decision query being answered, or NoCall
    msgs,            \* signals_queue: message id -> state, body, deliveries, outcome
    samplingRate,    \* settings.SIGNAL_SAMPLING_RATE, in tenths
    tasks,           \* concurrent handlers inside update_realtime_aggregate: position and locals
    latencies,       \* Fast Store: window -> the sorted set of latency samples
    writes,          \* window -> what the SETEXes made so far add up to (history)
    started,         \* number of handler runs started so far
    faults,          \* number of Fast Store calls that raised so far
    tuner,           \* the last upsert or tuner cycle: its input and the record before it
    hourly,          \* Durable Store: signal_aggregates_hourly rows, in insertion order
    rollup,          \* the last hourly rollup run: its hour, outcome and the rows before it
    response,        \* the body get_config is returning and the epoch second it read, or NoCall
    pct              \* the last percentile computation: its samples and its three results

engineVars == <<call, memo>>
decisionVars == <<redisUp, agg, bucket1m, custBucket, snapshots, signals, sent, decision>>
queueVars == <<msgs, samplingRate>>
aggregatorVars == <<tasks, latencies, writes, started, faults>>
tunerVars == <<tuner>>
jobVars == <<hourly, rollup>>
apiVars == <<response, pct>>
nonEngineVars == <<decisionVars, queueVars, aggregatorVars, tunerVars, jobVars, apiVars, apiVars>>
nonDecisionVars == <<engineVars, queueVars, aggregatorVars, tunerVars, jobVars, apiVars, apiVars>>

vars == <<thresholdStore, clock, engineVars, decisionVars, queueVars, aggregatorVars, tunerVars, jobVars, apiVars, apiVars>>

\* An absent row and an absent call are the empty set; a present one is a
\* singleton.
NoRecord == {}
NoCall == {}
Row(set) == CHOOSE r \in set : TRUE

\* ------------------------------------------------------------------ numbers

Rat(n, d) == [n |-> n, d |-> d]

\* r > kn/kd and r >= kn/kd for a rational r and a positive kd
RatGT(r, kn, kd) == r.n * kd > kn * r.d
RatGE(r, kn, kd) == r.n * kd >= kn * r.d

\* round n/d to the nearest integer, ties to even (Python's format rounding)
RoundHalfEven(n, d) ==
    LET q == n \div d
        r == n % d
    IN  IF 2 * r < d THEN q
        ELSE IF 2 * r > d THEN q + 1
        ELSE IF q % 2 = 0 THEN q ELSE q + 1

\* f"{x:.0f}": the integer shown; f"{x:.1f}": the number of tenths shown
Fmt0(r) == RoundHalfEven(r.n, r.d)
Fmt1(r) == RoundHalfEven(10 * r.n, r.d)
\* f"{error_rate*100:.1f}"
FmtPct1(r) == RoundHalfEven(1000 * r.n, r.d)

\* ------------------------------------------------------- threshold store

DEFAULTS ==
    [cache_latency_ms |-> 500,
     circuit_breaker_error_rate |-> 30,
     queue_deferral_rpm |-> 80,
     load_shedding_rpm |-> 150,
     rate_limit_customer_rpm |-> 15]

\* ThresholdRecommendation: the ranges and the shed > queue validator
ThresholdRecommendationValid(t) ==
    /\ t.cache_latency_ms \in 10..5000
    /\ t.circuit_breaker_error_rate \in 1..100
    /\ t.queue_deferral_rpm \in 10..1000
    /\ t.load_shedding_rpm \in 20..5000
    /\ t.rate_limit_customer_rpm \in 5..500
    /\ t.load_shedding_rpm > t.queue_deferral_rpm

\* Recommendations the advisor may return: one with queue below 0.8*shed,
\* one with queue above 0.8*shed, one at the lower ends of the ranges.
AdvisedRecords ==
    {[cache_latency_ms |-> 100, circuit_breaker_error_rate |-> 10,
      queue_deferral_rpm |-> 20, load_shedding_rpm |-> 50,
      rate_limit_customer_rpm |-> 5],
     [cache_latency_ms |-> 250, circuit_breaker_error_rate |-> 50,
      queue_deferral_rpm |-> 45, load_shedding_rpm |-> 50,
      rate_limit_customer_rpm |-> 30],
     [cache_latency_ms |-> 10, circuit_breaker_error_rate |-> 1,
      queue_deferral_rpm |-> 10, load_shedding_rpm |-> 20,
      rate_limit_customer_rpm |-> 5]}

WithSource(t, src) ==
    [cache_latency_ms |-> t.cache_latency_ms,
     circuit_breaker_error_rate |-> t.circuit_breaker_error_rate,
     queue_deferral_rpm |-> t.queue_deferral_rpm,
     load_shedding_rpm |-> t.load_shedding_rpm,
     rate_limit_customer_rpm |-> t.rate_limit_customer_rpm,
     source |-> src]

\* get_all_thresholds: the stored row with source 'ai', else the defaults
get_all_thresholds(store) ==
    IF store # NoRecord THEN WithSource(Row(store), "ai")
    ELSE WithSource(DEFAULTS, "default")

\* ------------------------------------------------------ the decision engine

Priorities == {"critical", "high", "medium", "low", "urgent"}

\* The dict an engine returns.  make_ai_decision returns no thresholds_source
\* key: "hardcoded" stands for its absence.
Verdict(cache, breaker, limit, queue, shed, alert, reasoning, source) ==
    [cache_enabled |-> cache,
     circuit_breaker |-> breaker,
     rate_limit_customer |-> limit,
     queue_deferral |-> queue,
     load_shedding |-> shed,
     send_alert |-> alert,
     reasoning |-> reasoning,
     thresholds_source |-> source]

\* a reasoning text that also shows the time of the call
TextStamped(prefix, rule, priority, shown) ==
    [prefix |-> prefix, rule |-> rule, priority |-> priority, shown |-> Append(shown, clock)]

\* The reasoning text: its prefix, the rule it names, the priority it quotes
\* ("" when none) and the numbers it shows, as formatted.
Text(prefix, rule, priority, shown) ==
    [prefix |-> prefix, rule |-> rule, priority |-> priority, shown |-> shown]

\* prefix of the reasoning text
Prefix(thresholds) ==
    IF thresholds.source = "ai" THEN "AI-Tuned" ELSE "Default"

\* The conditions of get_ai_tuned_decision, in the order it tests them
CustomerOverLimit(customer_requests_per_minute, customer_limit) ==
    RatGT(customer_requests_per_minute, customer_limit, 1)

ShedAllApplies(requests_per_minute, priority, shed_threshold) ==
    RatGT(requests_per_minute, shed_threshold, 1) /\ priority \in {"low", "medium"}

\* mutant: low priority is shed at the full threshold, not at 0.8 of it
ShedLowAtFullThreshold(requests_per_minute, priority, shed_threshold) ==
    RatGT(requests_per_minute, shed_threshold, 1) /\ priority = "low"

ShedLowApplies(requests_per_minute, priority, shed_threshold) ==
    RatGT(requests_per_minute, 4 * shed_threshold, 5) /\ priority = "low"

QueueApplies(requests_per_minute, priority, queue_threshold) ==
    RatGT(requests_per_minute, queue_threshold, 1) /\ priority \in {"low", "medium"}

\* mutant: the breaker needs the error rate strictly above the threshold
BreakerTripsStrict(error_rate, cb_threshold) ==
    RatGT(error_rate, cb_threshold, 100)

BreakerTrips(error_rate, cb_threshold) ==
    RatGE(error_rate, cb_threshold, 100)

DegradedApplies(error_rate, avg_latency, cb_threshold, cache_threshold) ==
    RatGE(error_rate, cb_threshold, 200) /\ RatGE(avg_latency, 4 * cache_threshold, 5)

\* mutant: caching needs the latency strictly above the threshold
LatencyHighStrict(avg_latency, cache_threshold) ==
    RatGT(avg_latency, cache_threshold, 1)

LatencyHigh(avg_latency, cache_threshold) ==
    RatGE(avg_latency, cache_threshold, 1)

ErrorsElevated(error_rate, cb_threshold) ==
    RatGE(error_rate, cb_threshold, 200)

\* mutant: the rate-limit verdict also raises the alert
TunedRateLimitAlerting(customer_requests_per_minute, thresholds) ==
    Verdict(FALSE, FALSE, TRUE, FALSE, FALSE, TRUE,
            Text(Prefix(thresholds), "Per-Customer Rate Limit", "",
                 <<Fmt1(customer_requests_per_minute),
                   thresholds.rate_limit_customer_rpm>>),
            thresholds.source)

\* TIER 1 verdict of get_ai_tuned_decision
TunedRateLimit(customer_requests_per_minute, thresholds) ==
    Verdict(FALSE, FALSE, TRUE, FALSE, FALSE, FALSE,
            Text(Prefix(thresholds), "Per-Customer Rate Limit", "",
                 <<Fmt1(customer_requests_per_minute),
                   thresholds.rate_limit_customer_rpm>>),
            thresholds.source)

\* TIER 2 verdicts of get_ai_tuned_decision
TunedShedAll(requests_per_minute, priority, thresholds) ==
    Verdict(TRUE, FALSE, FALSE, FALSE, TRUE, FALSE,
            Text(Prefix(thresholds), "Load Shedding", priority,
                 <<Fmt1(requests_per_minute), thresholds.load_shedding_rpm>>),
            thresholds.source)

TunedShedLow(requests_per_minute, thresholds) ==
    Verdict(TRUE, FALSE, FALSE, FALSE, TRUE, FALSE,
            Text(Prefix(thresholds), "Load Shedding", "low",
                 <<Fmt1(requests_per_minute)>>),
            thresholds.source)

TunedQueue(requests_per_minute, priority, thresholds) ==
    Verdict(TRUE, FALSE, FALSE, TRUE, FALSE, FALSE,
            Text(Prefix(thresholds), "Queue Deferral", priority,
                 <<Fmt1(requests_per_minute), thresholds.queue_deferral_rpm>>),
            thresholds.source)

\* TIER 3 of get_ai_tuned_decision: circuit breaker and caching
TunedTier3(avg_latency, error_rate, requests_per_minute, thresholds) ==
    LET cache_threshold == thresholds.cache_latency_ms
        cb_threshold == thresholds.circuit_breaker_error_rate
        prefix == Prefix(thresholds)
        src == thresholds.source
    IN  IF BreakerTrips(error_rate, cb_threshold)
        THEN Verdict(FALSE, TRUE, FALSE, FALSE, FALSE, TRUE,
                     Text(prefix, "CRITICAL", "",
                          <<FmtPct1(error_rate), cb_threshold>>), src)
        ELSE IF DegradedApplies(error_rate, avg_latency, cb_threshold, cache_threshold)
        THEN Verdict(TRUE, FALSE, FALSE, FALSE, FALSE, FALSE,
                     Text(prefix, "Performance Degradation", "",
                          <<Fmt0(avg_latency), FmtPct1(error_rate)>>), src)
        ELSE IF LatencyHigh(avg_latency, cache_threshold)
        THEN Verdict(TRUE, FALSE, FALSE, FALSE, FALSE, FALSE,
                     Text(prefix, "High Latency", "",
                          <<Fmt0(avg_latency), cache_threshold>>), src)
        ELSE IF ErrorsElevated(error_rate, cb_threshold)
        THEN Verdict(FALSE, FALSE, FALSE, FALSE, FALSE, FALSE,
                     Text(prefix, "Elevated Error Rate", "",
                          <<FmtPct1(error_rate), cb_threshold>>), src)
        ELSE Verdict(FALSE, FALSE, FALSE, FALSE, FALSE, FALSE,
                     Text(prefix, "Healthy", "",
                          <<Fmt0(avg_latency), FmtPct1(error_rate),
                            Fmt1(requests_per_minute)>>), src)

\* mutant: a critical request is answered healthy at once
TunedCriticalAllow(avg_latency, error_rate, requests_per_minute, thresholds) ==
    Verdict(FALSE, FALSE, FALSE, FALSE, FALSE, FALSE,
            Text(Prefix(thresholds), "Healthy", "",
                 <<Fmt0(avg_latency), FmtPct1(error_rate),
                   Fmt1(requests_per_minute)>>),
            thresholds.source)

\* priority == 'critical': pass, so the call goes on to TIER 3
TunedCritical(avg_latency, error_rate, requests_per_minute, thresholds) ==
    TunedTier3(avg_latency, error_rate, requests_per_minute, thresholds)

\* get_ai_tuned_decision, after the thresholds are loaded
get_ai_tuned_decision(avg_latency, error_rate, requests_per_minute, customer_requests_per_minute, priority, thresholds) ==
    IF CustomerOverLimit(customer_requests_per_minute,
                         thresholds.rate_limit_customer_rpm)
    THEN TunedRateLimit(customer_requests_per_minute, thresholds)
    ELSE IF priority = "critical"
    THEN TunedCritical(avg_latency, error_rate, requests_per_minute, thresholds)
    ELSE IF ShedAllApplies(requests_per_minute, priority, thresholds.load_shedding_rpm)
    THEN TunedShedAll(requests_per_minute, priority, thresholds)
    ELSE IF ShedLowApplies(requests_per_minute, priority, thresholds.load_shedding_rpm)
    THEN TunedShedLow(requests_per_minute, thresholds)
    ELSE IF QueueApplies(requests_per_minute, priority, thresholds.queue_deferral_rpm)
    THEN TunedQueue(requests_per_minute, priority, thresholds)
    ELSE TunedTier3(avg_latency, error_rate, requests_per_minute, thresholds)

\* the rules after TIER 2 of decide_node (hard-coded thresholds)
HardTier3(avg_latency, error_rate, total_rpm) ==
    IF RatGE(error_rate, 3, 10)
    THEN Verdict(FALSE, TRUE, FALSE, FALSE, FALSE, TRUE,
                 Text("", "CRITICAL", "", <<FmtPct1(error_rate)>>), "hardcoded")
    ELSE IF RatGE(error_rate, 15, 100) /\ RatGE(avg_latency, 400, 1)
    THEN Verdict(TRUE, FALSE, FALSE, FALSE, FALSE, FALSE,
                 Text("", "Performance Degradation", "",
                      <<Fmt0(avg_latency), FmtPct1(error_rate)>>), "hardcoded")
    ELSE IF RatGE(avg_latency, 500, 1)
    THEN Verdict(TRUE, FALSE, FALSE, FALSE, FALSE, FALSE,
                 Text("", "High Latency Detected", "", <<Fmt0(avg_latency)>>), "hardcoded")
    ELSE IF RatGE(error_rate, 15, 100)
    THEN Verdict(FALSE, FALSE, FALSE, FALSE, FALSE, FALSE,
                 Text("", "Elevated Error Rate", "", <<FmtPct1(error_rate)>>), "hardcoded")
    ELSE Verdict(FALSE, FALSE, FALSE, FALSE, FALSE, FALSE,
                 Text("", "Healthy", "",
                      <<Fmt0(avg_latency), FmtPct1(error_rate), Fmt1(total_rpm)>>), "hardcoded")

\* decide_node: the hard-coded engine behind make_ai_decision
decide_node(avg_latency, error_rate, total_rpm, customer_rpm, priority) ==
    IF RatGT(customer_rpm, 15, 1)
    THEN Verdict(FALSE, FALSE, TRUE, FALSE, FALSE, FALSE,
                 Text("", "Per-Customer Rate Limit", "", <<Fmt1(customer_rpm)>>), "hardcoded")
    ELSE IF priority = "critical"
    THEN HardTier3(avg_latency, error_rate, total_rpm)
    ELSE IF RatGT(total_rpm, 150, 1) /\ priority \in {"low", "medium"}
    THEN Verdict(TRUE, FALSE, FALSE, FALSE, TRUE, FALSE,
                 Text("", "Load Shedding: Extreme", priority, <<Fmt1(total_rpm)>>),
                 "hardcoded")
    ELSE IF RatGT(total_rpm, 120, 1) /\ priority = "low"
    THEN Verdict(TRUE, FALSE, FALSE, FALSE, TRUE, FALSE,
                 Text("", "Load Shedding: High", "low", <<Fmt1(total_rpm)>>), "hardcoded")
    ELSE IF RatGT(total_rpm, 80, 1) /\ ~RatGT(total_rpm, 120, 1)
            /\ priority \in {"low", "medium"}
    THEN Verdict(TRUE, FALSE, FALSE, TRUE, FALSE, FALSE,
                 Text("", "Queue Deferral", priority, <<Fmt1(total_rpm)>>), "hardcoded")
    ELSE HardTier3(avg_latency, error_rate, total_rpm)

\* make_ai_decision: runs the graph analyze -> decide and returns the verdict
make_ai_decision(avg_latency, error_rate, requests_per_minute, customer_requests_per_minute, priority) ==
    decide_node(avg_latency, error_rate, requests_per_minute,
                customer_requests_per_minute, priority)

\* the accumulating windows of the Fast Store
Windows == {"1h", "24h"}

\* the windows update_realtime_aggregate goes through, in its order
WindowOrder == <<"1m", "1h", "24h">>
AllWindows == {"1m", "1h", "24h"}

\* the handlers that may be inside update_realtime_aggregate at once
TaskIds == {"t1", "t2"}
IdleTask == [pc |-> "idle", kind |-> <<>>, w |-> 0, got |-> {}, card |-> 0, seq |-> 0, counted |-> {}, stored |-> FALSE]

\* the messages followed in signals_queue
MsgIds == {"m1", "m2"}

\* sampling rates and random draws, in tenths: 0.1 is the default rate,
\* random.random() is below 1.0
SIGNAL_SAMPLING_RATE == 1
Rates == {SIGNAL_SAMPLING_RATE, 10}
Draws == {0, 9}

\* ------------------------------------------------- engine calls (SpecEngine)

\* update_thresholds as the tuner calls it: all five values are supplied, so
\* the row, existing or new, ends up holding exactly them
update_thresholds(store, thresholds) ==
   {[cache_latency_ms |-> thresholds.cache_latency_ms,
     circuit_breaker_error_rate |-> thresholds.circuit_breaker_error_rate,
     queue_deferral_rpm |-> thresholds.queue_deferral_rpm,
     load_shedding_rpm |-> thresholds.load_shedding_rpm,
     rate_limit_customer_rpm |-> thresholds.rate_limit_customer_rpm]}

\* Engine inputs on and next to every boundary of a threshold record
LatencyInputs(t) ==
    {Rat(4 * t.cache_latency_ms - 1, 5), Rat(4 * t.cache_latency_ms, 5),
     Rat(t.cache_latency_ms - 1, 1), Rat(t.cache_latency_ms, 1)}
ErrorInputs(t) ==
    {Rat(t.circuit_breaker_error_rate - 1, 200),
     Rat(t.circuit_breaker_error_rate, 200),
     Rat(t.circuit_breaker_error_rate - 1, 100),
     Rat(t.circuit_breaker_error_rate, 100)}
RpmInputs(t) ==
    {Rat(t.queue_deferral_rpm, 1), Rat(t.queue_deferral_rpm + 1, 1),
     Rat(4 * t.load_shedding_rpm, 5), Rat(4 * t.load_shedding_rpm + 1, 5),
     Rat(t.load_shedding_rpm, 1), Rat(t.load_shedding_rpm + 1, 1)}
CustomerInputs(t) ==
    {Rat(0, 1), Rat(t.rate_limit_customer_rpm, 1),
     Rat(t.rate_limit_customer_rpm + 1, 1)}

EngineCall(engine, lat, er, rpm, crpm, prio, thresholds, verdict) ==
   {[engine |-> engine,
     avg_latency |-> lat,
     error_rate |-> er,
     requests_per_minute |-> rpm,
     customer_requests_per_minute |-> crpm,
     priority |-> prio,
     thresholds |-> thresholds,
     verdict |-> verdict,
     at |-> clock]}

\* the tuner commits a validated recommendation
TunerUpsert ==
    /\ \E t \in AdvisedRecords :
          /\ ThresholdRecommendationValid(t)
          /\ thresholdStore' = update_thresholds(thresholdStore, t)
    /\ UNCHANGED <<call, memo, clock, nonEngineVars>>

\* one call of get_ai_tuned_decision: loads the thresholds, then decides
CallTuned ==
    LET thresholds == get_all_thresholds(thresholdStore)
    IN  /\ call = NoCall
        /\ \E lat \in LatencyInputs(thresholds), er \in ErrorInputs(thresholds),
              rpm \in RpmInputs(thresholds), crpm \in CustomerInputs(thresholds),
              prio \in Priorities :
              call' = EngineCall("tuned", lat, er, rpm, crpm, prio, thresholds,
                          get_ai_tuned_decision(lat, er, rpm, crpm, prio, thresholds))
        /\ UNCHANGED <<thresholdStore, memo, clock, nonEngineVars>>

\* one call of make_ai_decision (thresholds are the code's literals)
CallHard ==
    /\ call = NoCall
    /\ \E lat \in LatencyInputs(DEFAULTS), er \in ErrorInputs(DEFAULTS),
          rpm \in RpmInputs(DEFAULTS), crpm \in CustomerInputs(DEFAULTS),
          prio \in Priorities :
          call' = EngineCall("hard", lat, er, rpm, crpm, prio,
                      WithSource(DEFAULTS, "hardcoded"),
                      make_ai_decision(lat, er, rpm, crpm, prio))
    /\ UNCHANGED <<thresholdStore, memo, clock, nonEngineVars>>

\* the caller has the verdict: the call is over
Respond ==
    /\ call # NoCall
    /\ call' = NoCall
    /\ UNCHANGED <<thresholdStore, memo, clock, nonEngineVars>>

\* the stores as a fresh deployment has them
StoresInit ==
    /\ redisUp = TRUE
    /\ agg = [w \in Windows |-> {}]
    /\ bucket1m = {}
    /\ custBucket = {}
    /\ snapshots = {}
    /\ signals = <<>>
    /\ sent = 0
    /\ decision = NoCall

\* nothing published yet
QueueIdle ==
    msgs = [m \in MsgIds |-> [state |-> "new", body |-> {}, published |-> 0, deliveries |-> 0, result |-> "none", frames |-> <<>>]]

\* no upsert and no tuner cycle yet
NoOp == {}
TunerIdle == tuner = NoOp

\* no rollup row and no rollup run yet
JobsIdle == hourly = EmptyBag /\ rollup = NoOp

\* no config query is being answered
ApiIdle == response = {} /\ pct = {}

\* no handler is inside the aggregator, the reservoirs are empty
AggregatorIdle ==
    /\ tasks = [t \in TaskIds |-> IdleTask]
    /\ latencies = [w \in AllWindows |-> {}]
    /\ writes = [w \in AllWindows |-> [count |-> 0, sum_latency |-> 0, errors |-> 0]]
    /\ started = 0
    /\ faults = 0

EnginesIdle ==
    /\ call = NoCall
    /\ memo = NoCall

EngineInit ==
    /\ thresholdStore = NoRecord
    /\ clock = 0
    /\ EnginesIdle
    /\ StoresInit
    /\ QueueIdle
    /\ AggregatorIdle
    /\ TunerIdle
    /\ JobsIdle
    /\ ApiIdle
    /\ samplingRate = SIGNAL_SAMPLING_RATE

EngineNext == TunerUpsert \/ CallTuned \/ CallHard \/ Respond

SpecEngine == EngineInit /\ [][EngineNext]_vars

\* ------------------------------------------- the decision query (SpecDecision)
\* One endpoint of one service of one user is followed: its Fast Store keys,
\* its aggregate_snapshots rows and the signals rows of its (service, endpoint).
\* The latency reservoir is left out here: no decision reads the percentiles.

NoCustomer == ""
Customers == {NoCustomer, "c1"}
\* the signals sent: status, latency_ms, customer_identifier
SignalKinds == {<<"success", 100, "c1">>, <<"success", 600, NoCustomer>>, <<"error", 600, "c1">>}

\* the minutes at which the stores are looked at; time jumps between them
Instants == {0, 1, 60, 1440}

\* bounds of the exploration
MaxSignals == 3
MaxSnapshots == 1

MinSignals == 3
RawLimit == 20

WindowMinutes(window) == IF window = "1h" THEN 60 ELSE 1440
TtlMinutes(window) == IF window = "1h" THEN 60 ELSE 1440
BucketTtlMinutes == 2
SnapshotRetentionMinutes == 30 * 24 * 60
SnapshotMaxAgeMinutes == 30

\* a key is gone once its TTL, counted from its last SETEX, has run out
Live(docs, ttl, now) == {d \in docs : now < d.last + ttl}

\* GET, count one signal, SETEX: the document after the update.  since is
\* history: the time of the first signal the document counts
Bump(docs, latency_ms, status, now) ==
    LET old == IF docs = {} THEN [count |-> 0, sum_latency |-> 0, errors |-> 0, last |-> now, since |-> now]
               ELSE Row(docs)
    IN  {[count |-> old.count + 1,
          sum_latency |-> old.sum_latency + latency_ms,
          errors |-> old.errors + (IF status = "error" THEN 1 ELSE 0),
          last |-> now, since |-> old.since]}

\* the bucket key carries the minute: a new minute starts a new key
BumpBucket(bucket, latency_ms, status, now) ==
    LET same == {b \in bucket : b.minute = now}
        old == IF same = {} THEN [count |-> 0, sum_latency |-> 0, errors |-> 0] ELSE Row(same)
    IN  (bucket \ same)
        \cup {[minute |-> now, count |-> old.count + 1,
                sum_latency |-> old.sum_latency + latency_ms,
                errors |-> old.errors + (IF status = "error" THEN 1 ELSE 0)]}

\* the value stored under the customer's key of the minute, if any
CustomerDoc(bucket, customer, now) ==
    {b \in bucket : b.minute = now /\ b.customer = customer}

\* mutant: the key of the write leaves the customer out
SetCustomerAnyClient(bucket, got, customer, now) ==
    {b \in bucket : b.minute /= now}
    \cup {[customer |-> customer, minute |-> now,
            count |-> (IF got = {} THEN 0 ELSE Row(got).count) + 1]}

\* SETEX of the customer's key of the minute: the count read (got), plus one
SetCustomer(bucket, got, customer, now) ==
    (bucket \ CustomerDoc(bucket, customer, now))
    \cup {[customer |-> customer, minute |-> now,
            count |-> (IF got = {} THEN 0 ELSE Row(got).count) + 1]}

\* the customer's bucket of the minute holds a count only
BumpCustomer(bucket, customer, now) ==
    SetCustomer(bucket, CustomerDoc(bucket, customer, now), customer, now)

BucketCount(bucket, now) ==
    LET same == {b \in bucket : b.minute = now}
    IN  IF same = {} THEN 0 ELSE Row(same).count

CustomerCount(bucket, customer, now) ==
    LET same == CustomerDoc(bucket, customer, now)
    IN  IF same = {} THEN 0 ELSE Row(same).count

\* The Fast Store keys of the endpoint, as their parts between the colons.
KeyPrefix == <<"rt_agg", "user", "1", "service", "svc", "endpoint", "/e">>
_get_aggregate_key(window) == KeyPrefix \o <<window>>
BucketKey(minute) == KeyPrefix \o <<"1m", ToString(minute)>>
CustomerKey(customer, minute) == KeyPrefix \o <<"customer", customer, "1m", ToString(minute)>>
LatencyKey(key) == key \o <<"latencies">>

\* the newest snapshot row of the endpoint and window, whatever its age
get_snapshot_metrics(rows, window) ==
    LET mine == {r \in rows : r.user_id = KeyPrefix[3] /\ r.service_name = KeyPrefix[5]
                                /\ r.endpoint = <<KeyPrefix[7]>> /\ r.window = window}
        newest == {r \in mine : \A o \in mine : o.snapshot_at <= r.snapshot_at}
    IN  {[count |-> r.count, avg_latency |-> r.avg_latency,
          error_rate |-> r.error_rate] : r \in newest}

\* the set holding the metrics returned, empty for None.  one_min_fails: the
\* read of the 1m bucket raises; importable: the snapshot module is found
\* (the import names app.aggregate_persistence, the file is
\* app/redis/aggregate_persistence.py)
get_realtime_metrics(up, docs, bucket, rows, window, now, one_min_fails, importable) ==
    IF ~up THEN {}
    ELSE IF docs /= {}
    THEN LET a == Row(docs)
             one_min == BucketCount(bucket, now)
         IN  {[count |-> a.count,
               avg_latency |-> IF a.count > 0 THEN Rat(a.sum_latency, a.count) ELSE Rat(0, 1),
               error_rate |-> IF a.count > 0 THEN Rat(a.errors, a.count) ELSE Rat(0, 1),
               requests_per_minute |->
                   IF ~one_min_fails /\ one_min > 0 THEN Rat(one_min, 1)
                   ELSE Rat(a.count, WindowMinutes(window)),
               source |-> "redis"]}
    ELSE IF ~importable THEN {}
    ELSE {[count |-> s.count, avg_latency |-> s.avg_latency,
           error_rate |-> s.error_rate,
           requests_per_minute |-> Rat(s.count, WindowMinutes(window)),
           source |-> "snapshot"] : s \in get_snapshot_metrics(rows, window)}

\* the customer's count of the current minute, 0 when the read raises
get_customer_metrics(up, bucket, customer, now) ==
    IF ~up THEN 0 ELSE CustomerCount(bucket, customer, now)

RECURSIVE SumLatency(_)
SumLatency(rows) ==
    IF rows = <<>> THEN 0 ELSE Head(rows).latency_ms + SumLatency(Tail(rows))

RECURSIVE ErrorCount(_)
ErrorCount(rows) ==
    IF rows = <<>> THEN 0
    ELSE (IF Head(rows).status = "error" THEN 1 ELSE 0) + ErrorCount(Tail(rows))

\* order_by(timestamp.desc()).limit(20) of the rows kept newest first
LatestRows(rows) == SubSeq(rows, 1, IF Len(rows) < RawLimit THEN Len(rows) ELSE RawLimit)

NotEnoughData == Text("", "Not enough data yet (need 3+ signals)", "", <<>>)

\* what make_decision returns; keys the dictionary lacks read as FALSE, as
\* get_config reads them with .get
Answer(path, metrics, customer_rpm, v, alert) ==
    [path |-> path, metrics |-> metrics, customer_rpm |-> customer_rpm,
     cache_enabled |-> v.cache_enabled, circuit_breaker |-> v.circuit_breaker,
     rate_limit_customer |-> v.rate_limit_customer,
     queue_deferral |-> v.queue_deferral, load_shedding |-> v.load_shedding,
     send_alert |-> alert, reason |-> v.reasoning]

NoFlags(reasoning) ==
    Verdict(FALSE, FALSE, FALSE, FALSE, FALSE, FALSE, reasoning, "hardcoded")

RawKeys(v) ==
    [v EXCEPT !.rate_limit_customer = FALSE, !.queue_deferral = FALSE, !.load_shedding = FALSE]

GatePasses(metrics) == metrics /= {} /\ Row(metrics).count >= MinSignals

make_decision(metrics, customer_rpm, priority, store, rows) ==
    IF GatePasses(metrics)
    THEN LET m == Row(metrics)
             v == get_ai_tuned_decision(m.avg_latency, m.error_rate, m.requests_per_minute, Rat(customer_rpm, 1), priority, get_all_thresholds(store))
         IN  Answer("realtime", metrics, customer_rpm, v, v.send_alert)
    ELSE LET last == LatestRows(rows)
         IN  IF Len(last) < MinSignals
             THEN Answer("insufficient", metrics, customer_rpm, NoFlags(NotEnoughData), FALSE)
             ELSE LET v == make_ai_decision(Rat(SumLatency(last), Len(last)), Rat(ErrorCount(last), Len(last)), Rat(0, 1), Rat(0, 1), "medium")
                  IN  Answer("raw", metrics, customer_rpm, RawKeys(v), FALSE)

\* every key of the endpoint counts the signal; a Fast Store that does not
\* answer leaves them as they are, the errors are swallowed
update_realtime_aggregate(status, latency_ms, customer) ==
    IF redisUp
    THEN /\ agg' = [w \in Windows |-> Bump(Live(agg[w], TtlMinutes(w), clock), latency_ms, status, clock)]
         /\ bucket1m' = BumpBucket(bucket1m, latency_ms, status, clock)
         /\ custBucket' = IF customer /= NoCustomer THEN BumpCustomer(custBucket, customer, clock) ELSE custBucket
    ELSE UNCHANGED <<agg, bucket1m, custBucket>>

\* errors are sampled like successes
should_store_sampled_only(status, draw, rate) == draw < rate

\* errors are stored always, successes when the draw is below the rate
should_store(status, draw, rate) == status = "error" \/ draw < rate

\* the signals row; origin and draw are history: the message (or the HTTP
\* request) it came from and the draw that selected it, none for an error
SignalRow(status, latency_ms, origin, draw) ==
    [status |-> status, latency_ms |-> latency_ms, origin |-> origin,
     draw |-> IF status = "error" THEN {} ELSE {draw}]

\* POST /signals processed to the end: aggregates, then the sampled row
Ingest(status, latency_ms, customer, draw) ==
    /\ decision = NoCall
    /\ sent < MaxSignals
    /\ sent' = sent + 1
    /\ update_realtime_aggregate(status, latency_ms, customer)
    /\ signals' = IF should_store(status, draw, samplingRate)
                  THEN <<SignalRow(status, latency_ms, "http", draw)>> \o signals
                  ELSE signals
    /\ UNCHANGED <<thresholdStore, clock, redisUp, snapshots, decision, nonDecisionVars>>

\* time passes; keys whose TTL has run out are gone
Advance(now) ==
    /\ decision = NoCall
    /\ now > clock
    /\ clock' = now
    /\ agg' = [w \in Windows |-> Live(agg[w], TtlMinutes(w), clock')]
    /\ bucket1m' = {b \in bucket1m : clock' < b.minute + BucketTtlMinutes}
    /\ custBucket' = {b \in custBucket : clock' < b.minute + BucketTtlMinutes}
    /\ UNCHANGED <<thresholdStore, redisUp, snapshots, signals, sent, decision, nonDecisionVars>>

RedisDown ==
    /\ decision = NoCall
    /\ redisUp
    /\ redisUp' = FALSE
    /\ UNCHANGED <<thresholdStore, clock, agg, bucket1m, custBucket, snapshots, signals, sent, decision, nonDecisionVars>>

RedisUp ==
    /\ decision = NoCall
    /\ ~redisUp
    /\ redisUp' = TRUE
    /\ UNCHANGED <<thresholdStore, clock, agg, bucket1m, custBucket, snapshots, signals, sent, decision, nonDecisionVars>>

\* SCAN rt_agg:* : the keys of the endpoint with their values; every key
\* with a document has its sorted set of latencies beside it
Keyspace ==
    LET docs == {<<_get_aggregate_key(w), Row(agg[w])>> : w \in {x \in Windows : agg[x] /= {}}}
                \cup {<<BucketKey(b.minute), b>> : b \in bucket1m}
    IN  docs
        \cup {<<LatencyKey(k[1]), [zset |-> TRUE]>> : k \in docs}
        \cup {<<CustomerKey(b.customer, b.minute), [count |-> b.count]>> : b \in custBucket}

\* the snapshot row the job adds for one key, none when the key is skipped
\* or its processing raises (a document without sum_latency)
SnapshotOf(key, data, now) ==
    IF key[Len(key)] = "latencies" \/ Len(key) < 8 THEN {}
    ELSE IF "sum_latency" \notin DOMAIN data THEN {}
    ELSE {[user_id |-> key[3], service_name |-> key[5],
           endpoint |-> SubSeq(key, 7, Len(key) - 1), window |-> key[Len(key)],
           snapshot_at |-> now, count |-> data.count,
           avg_latency |-> IF data.count > 0 THEN Rat(data.sum_latency, data.count) ELSE Rat(0, 1),
           error_rate |-> IF data.count > 0 THEN Rat(data.errors, data.count) ELSE Rat(0, 1)]}

\* the half-hourly job: one row per key that parses and holds a document,
\* old rows purged
snapshot_redis_aggregates ==
    /\ decision = NoCall
    /\ redisUp
    /\ \A r \in snapshots : r.snapshot_at < clock
    /\ Cardinality({r.snapshot_at : r \in snapshots}) < MaxSnapshots
    /\ Keyspace /= {}
    /\ snapshots' =
         LET kept == {r \in snapshots : clock - r.snapshot_at <= SnapshotRetentionMinutes}
             new == UNION {SnapshotOf(k[1], k[2], clock) : k \in Keyspace}
         IN  kept \cup new
    /\ UNCHANGED <<thresholdStore, clock, redisUp, agg, bucket1m, custBucket, signals, sent, decision, nonDecisionVars>>

\* GET /config for the endpoint
MakeDecision(priority, customer, one_min_fails, importable) ==
    /\ decision = NoCall
    /\ one_min_fails => redisUp /\ agg["1h"] /= {}
    /\ ~importable => redisUp /\ agg["1h"] = {}
    /\ LET metrics == get_realtime_metrics(redisUp, agg["1h"], bucket1m, snapshots, "1h", clock, one_min_fails, importable)
           customer_rpm == IF customer /= NoCustomer THEN get_customer_metrics(redisUp, custBucket, customer, clock) ELSE 0
       IN  decision' = {make_decision(metrics, customer_rpm, priority, thresholdStore, signals)}
    /\ UNCHANGED <<thresholdStore, clock, redisUp, agg, bucket1m, custBucket, snapshots, signals, sent, nonDecisionVars>>

DecisionRespond ==
    /\ decision /= NoCall
    /\ decision' = NoCall
    /\ UNCHANGED <<thresholdStore, clock, redisUp, agg, bucket1m, custBucket, snapshots, signals, sent, nonDecisionVars>>

DecisionInit ==
    /\ thresholdStore = NoRecord
    /\ clock = 0
    /\ EnginesIdle
    /\ StoresInit
    /\ QueueIdle
    /\ AggregatorIdle
    /\ TunerIdle
    /\ JobsIdle
    /\ ApiIdle
    /\ samplingRate = SIGNAL_SAMPLING_RATE

DecisionNext ==
    \/ \E kind \in SignalKinds, draw \in Draws : Ingest(kind[1], kind[2], kind[3], draw)
    \/ \E now \in Instants : Advance(now)
    \/ RedisDown
    \/ RedisUp
    \/ snapshot_redis_aggregates
    \/ \E priority \in Priorities, customer \in Customers, one_min_fails \in BOOLEAN, importable \in BOOLEAN : MakeDecision(priority, customer, one_min_fails, importable)
    \/ DecisionRespond

SpecDecision == DecisionInit /\ [][DecisionNext]_vars

\* ------------------------------------------ repeated engine calls (SpecPurity)
\* The engines are called again and again on a few inputs while time passes,
\* the tuner writes, the Fast Store fails and recovers and a signal arrives.
\* One earlier call is remembered to compare later calls with.

PurityInputs ==
    {[avg_latency |-> Rat(600, 1), error_rate |-> Rat(0, 1), requests_per_minute |-> Rat(1, 1), customer_requests_per_minute |-> Rat(0, 1), priority |-> "medium"],
     [avg_latency |-> Rat(100, 1), error_rate |-> Rat(1, 2), requests_per_minute |-> Rat(200, 1), customer_requests_per_minute |-> Rat(1, 1), priority |-> "high"],
     [avg_latency |-> Rat(300, 1), error_rate |-> Rat(1, 5), requests_per_minute |-> Rat(60, 1), customer_requests_per_minute |-> Rat(8, 1), priority |-> "low"]}

CallTunedOn(i) ==
    LET thresholds == get_all_thresholds(thresholdStore)
    IN  /\ call = NoCall
        /\ call' = EngineCall("tuned", i.avg_latency, i.error_rate, i.requests_per_minute, i.customer_requests_per_minute, i.priority, thresholds,
                       get_ai_tuned_decision(i.avg_latency, i.error_rate, i.requests_per_minute, i.customer_requests_per_minute, i.priority, thresholds))
        /\ UNCHANGED <<thresholdStore, memo, clock, nonEngineVars>>

CallHardOn(i) ==
    /\ call = NoCall
    /\ call' = EngineCall("hard", i.avg_latency, i.error_rate, i.requests_per_minute, i.customer_requests_per_minute, i.priority, WithSource(DEFAULTS, "hardcoded"),
                   make_ai_decision(i.avg_latency, i.error_rate, i.requests_per_minute, i.customer_requests_per_minute, i.priority))
    /\ UNCHANGED <<thresholdStore, memo, clock, nonEngineVars>>

\* the call being answered is the one remembered
Remember ==
    /\ memo = NoCall
    /\ call /= NoCall
    /\ memo' = call
    /\ UNCHANGED <<thresholdStore, call, clock, nonEngineVars>>

\* the first signal of the endpoint arrives
FirstSignal ==
    /\ sent = 0
    /\ \E kind \in SignalKinds, draw \in Draws : Ingest(kind[1], kind[2], kind[3], draw)

PurityNext ==
    \/ TunerUpsert
    \/ \E i \in PurityInputs : CallTunedOn(i)
    \/ \E i \in PurityInputs : CallHardOn(i)
    \/ Remember
    \/ Respond
    \/ \E now \in Instants : Advance(now)
    \/ RedisDown
    \/ RedisUp
    \/ FirstSignal

SpecPurity == EngineInit /\ [][PurityNext]_vars

\* ------------------------------------------------ the consumer (SpecQueue)
\* Messages are published to signals_queue, delivered to the consumer, handled
\* by _on_message and settled by the frames it sends; the broker requeues what
\* is nacked or left unsettled by a closed channel and dead-letters what
\* expires.  The handler runs as one step, with the point at which it fails
\* as an input.

\* bound of the exploration: deliveries made in all
MaxDeliveries == 3
MessageTtlMinutes == 1440
\* "After 3 failures the message goes to the dead-letter queue"
RedeliveryLimit == 3

\* a body json.loads rejects
Garbage == <<"garbage">>
Bodies == {k \in SignalKinds : k[3] /= NoCustomer} \cup {Garbage}

\* how a run of the handler goes
\*   clean          nothing raises
\*   commit_raises  db.commit() raises (only when the row is to be stored)
\*   cancelled      the task is cancelled after the row is committed
\*   channel_lost   the body ends cleanly and the channel closes before the ack
Faults == {"clean", "commit_raises", "cancelled", "channel_lost"}

\* what the try block of _on_message ends with
Ending(body, fault, stores) ==
    IF body = Garbage THEN "exception"
    ELSE IF fault = "commit_raises" /\ stores THEN "exception"
    ELSE IF fault = "cancelled" THEN "cancelled"
    ELSE "clean"

\* message.process(requeue=True) without ignore_processed: the exit settles
\* the message again
on_message_frames_twice(ending) ==
    (IF ending = "exception" THEN <<"nack_requeue">> ELSE <<>>)
        \o (IF ending = "cancelled" THEN <<"reject_requeue">> ELSE <<"ack">>)

\* the frames the handler sends for a delivery: the except clause nacks with
\* requeue; the exit of message.process(requeue=True, ignore_processed=True)
\* acks after a clean body, rejects with requeue after an escaping exception,
\* and sends nothing for a message already settled
on_message_frames(ending) ==
    LET explicit == IF ending = "exception" THEN <<"nack_requeue">> ELSE <<>>
        processed == explicit /= <<>>
        exit == IF processed THEN <<>>
                ELSE IF ending = "cancelled" THEN <<"reject_requeue">>
                ELSE <<"ack">>
    IN  explicit \o exit

\* the broker acts on the first frame of a delivery; a delivery left without
\* a frame is requeued when its channel closes
Settled(frames) ==
    IF frames /= <<>> /\ Head(frames) = "ack" THEN "acked" ELSE "ready"

\* publish_signal: a persistent message enters the queue
Publish(m, body) ==
    /\ msgs[m].state = "new"
    /\ msgs' = [msgs EXCEPT ![m] = [@ EXCEPT !.state = "ready", !.body = body, !.published = clock]]
    /\ UNCHANGED <<thresholdStore, clock, engineVars, tunerVars, jobVars, apiVars, decisionVars, aggregatorVars, samplingRate>>

RECURSIVE Deliveries(_)
Deliveries(ids) ==
    IF ids = {} THEN 0
    ELSE LET m == CHOOSE x \in ids : TRUE
         IN  msgs[m].deliveries + Deliveries(ids \ {m})

\* the broker hands a ready message to the consumer; nothing in the queue's
\* declaration limits how often
Deliver(m) ==
    /\ msgs[m].state = "ready"
    /\ Deliveries(MsgIds) < MaxDeliveries
    /\ msgs' = [msgs EXCEPT ![m] = [@ EXCEPT !.state = "unacked", !.deliveries = @ + 1, !.result = "none", !.frames = <<>>]]
    /\ UNCHANGED <<thresholdStore, clock, engineVars, tunerVars, jobVars, apiVars, decisionVars, aggregatorVars, samplingRate>>

\* _on_message on a delivered message: decode, _process_signal (aggregates,
\* the sampled row, cache invalidation), then the frames
_on_message(m, fault, draw) ==
    LET body == msgs[m].body
        decoded == body /= Garbage
        stores == decoded /\ should_store(body[1], draw, samplingRate)
        ending == Ending(body, fault, stores)
        frames == IF fault = "channel_lost" /\ ending = "clean" THEN <<>> ELSE on_message_frames(ending)
    IN  /\ msgs[m].state = "unacked"
        /\ fault = "commit_raises" => stores
        /\ IF decoded
           THEN update_realtime_aggregate(body[1], body[2], body[3])
           ELSE UNCHANGED <<agg, bucket1m, custBucket>>
        /\ signals' = IF stores /\ fault /= "commit_raises"
                      THEN <<SignalRow(body[1], body[2], m, draw)>> \o signals
                      ELSE signals
        /\ msgs' = [msgs EXCEPT ![m] = [@ EXCEPT !.state = Settled(frames), !.result = ending, !.frames = frames]]
        /\ UNCHANGED <<thresholdStore, clock, engineVars, tunerVars, jobVars, apiVars, redisUp, snapshots, sent, decision, aggregatorVars, samplingRate>>

\* x-message-ttl: a message still ready 24 hours after it was published goes
\* to signals_dead_letter
Expire(m) ==
    /\ msgs[m].state = "ready"
    /\ clock >= msgs[m].published + MessageTtlMinutes
    /\ msgs' = [msgs EXCEPT ![m] = [@ EXCEPT !.state = "dead"]]
    /\ UNCHANGED <<thresholdStore, clock, engineVars, tunerVars, jobVars, apiVars, decisionVars, aggregatorVars, samplingRate>>

QueueInit ==
    /\ thresholdStore = NoRecord
    /\ clock = 0
    /\ EnginesIdle
    /\ StoresInit
    /\ QueueIdle
    /\ AggregatorIdle
    /\ TunerIdle
    /\ JobsIdle
    /\ ApiIdle
    /\ samplingRate \in Rates

QueueNext ==
    \/ \E m \in MsgIds, body \in Bodies : Publish(m, body)
    \/ \E m \in MsgIds : Deliver(m)
    \/ \E m \in MsgIds, fault \in Faults, draw \in Draws : _on_message(m, fault, draw)
    \/ \E m \in MsgIds : Expire(m)
    \/ Advance(MessageTtlMinutes)

SpecQueue == QueueInit /\ [][QueueNext]_vars

\* ---------------------------- concurrent aggregate updates (SpecAggregator)
\* Handlers run as tasks of one event loop: every await on the Fast Store
\* is a point where another handler may run.  One step per Fast Store call.

\* handler runs followed
MaxUpdates == 3

\* the cap on a latency sorted set, 1000 in the program
ReservoirCap == 2

\* status, latency_ms and customer_identifier of the signals being counted
UpdateKinds == {<<"success", 100, "c1">>, <<"success", 600, NoCustomer>>, <<"error", 300, "c1">>}

Triple(d) == [count |-> d.count, sum_latency |-> d.sum_latency, errors |-> d.errors]

\* GET of the window's key: the bucket of the minute for 1m
GetDoc(docs, bucket, window, now) ==
    IF window = "1m" THEN {Triple(b) : b \in {x \in bucket : x.minute = now}}
    ELSE {Triple(d) : d \in docs[window]}

\* only successes are counted in count
CountedSuccessesOnly(got, latency_ms, status) ==
    LET old == IF got = {} THEN [count |-> 0, sum_latency |-> 0, errors |-> 0] ELSE Row(got)
    IN  [count |-> old.count + (IF status = "error" THEN 0 ELSE 1),
         sum_latency |-> old.sum_latency + latency_ms,
         errors |-> old.errors + (IF status = "error" THEN 1 ELSE 0)]

\* the document read (or a fresh one) with this signal counted
Counted(got, latency_ms, status) ==
    LET old == IF got = {} THEN [count |-> 0, sum_latency |-> 0, errors |-> 0] ELSE Row(got)
    IN  [count |-> old.count + 1,
         sum_latency |-> old.sum_latency + latency_ms,
         errors |-> old.errors + (IF status = "error" THEN 1 ELSE 0)]

\* ZADD: the member is "<timestamp>:<latency_ms>", the score the latency; a
\* member already there stays one member.  seq is history: the order of ingest
Zadded(set, ts, latency_ms, seq) ==
    IF \E e \in set : e.ts = ts /\ e.latency_ms = latency_ms THEN set
    ELSE set \cup {[ts |-> ts, latency_ms |-> latency_ms, seq |-> seq]}

\* rank 0 of a sorted set: the lowest score, then the lowest member
Rank0(set) ==
    CHOOSE e \in set : \A o \in set :
        \/ e.latency_ms < o.latency_ms
        \/ (e.latency_ms = o.latency_ms /\ e.ts <= o.ts)

RECURSIVE zremrangebyrank(_, _)
\* ZREMRANGEBYRANK key 0 stop: the stop + 1 members of lowest rank go
zremrangebyrank(set, stop) ==
    IF stop < 0 \/ set = {} THEN set
    ELSE zremrangebyrank(set \ {Rank0(set)}, stop - 1)

\* the window's iteration is over (its try block left, by the end or by an
\* exception): the next window, or the customer block, or the caller's commit
AfterWindow(task) ==
    IF task.w < Len(WindowOrder) THEN [task EXCEPT !.pc = "get", !.w = task.w + 1, !.got = {}, !.card = 0]
    ELSE [task EXCEPT !.pc = IF task.kind[3] /= NoCustomer THEN "cust_get" ELSE "store", !.got = {}, !.card = 0]

\* Fast Store calls that raise, followed
MaxFaults == 1

\* the call raises, or does not
Raised(raises) ==
    /\ raises => faults < MaxFaults
    /\ faults' = IF raises THEN faults + 1 ELSE faults

\* a handler enters update_realtime_aggregate
Start(t, kind) ==
    /\ tasks[t].pc = "idle"
    /\ started < MaxUpdates
    /\ started' = started + 1
    /\ tasks' = [tasks EXCEPT ![t] = [pc |-> "get", kind |-> kind, w |-> 1, got |-> {}, card |-> 0, seq |-> started + 1, counted |-> {}, stored |-> FALSE]]
    /\ UNCHANGED <<thresholdStore, clock, engineVars, tunerVars, jobVars, apiVars, decisionVars, queueVars, latencies, writes, faults>>

\* data = await redis_client.get(key)
Get(t, raises) ==
    /\ tasks[t].pc = "get"
    /\ tasks' = [tasks EXCEPT ![t] =
                   IF raises THEN AfterWindow(tasks[t])
                   ELSE [tasks[t] EXCEPT !.pc = "setex", !.got = GetDoc(agg, bucket1m, WindowOrder[tasks[t].w], clock)]]
    /\ UNCHANGED <<thresholdStore, clock, engineVars, tunerVars, jobVars, apiVars, decisionVars, queueVars, latencies, writes, started>>
    /\ Raised(raises)

\* the counters updated in memory, then await redis_client.setex(key, ttl, ...)
Setex(t, raises) ==
    LET task == tasks[t]
        window == WindowOrder[task.w]
        new == Counted(task.got, task.kind[2], task.kind[1])
    IN  /\ task.pc = "setex"
        /\ IF raises
           THEN /\ tasks' = [tasks EXCEPT ![t] = AfterWindow(task)]
                /\ UNCHANGED <<agg, bucket1m, writes>>
           ELSE /\ tasks' = [tasks EXCEPT ![t] = [task EXCEPT !.pc = "zadd", !.counted = task.counted \cup {window}]]
                /\ bucket1m' = IF window = "1m"
                               THEN {b \in bucket1m : b.minute /= clock}
                                    \cup {[minute |-> clock, count |-> new.count, sum_latency |-> new.sum_latency, errors |-> new.errors]}
                               ELSE bucket1m
                /\ agg' = IF window = "1m" THEN agg
                          ELSE [agg EXCEPT ![window] = {[count |-> new.count, sum_latency |-> new.sum_latency, errors |-> new.errors, last |-> clock,
                                                           since |-> IF task.got = {} \/ agg[window] = {} THEN clock ELSE Row(agg[window]).since]}]
                /\ writes' = [writes EXCEPT ![window] = Counted({writes[window]}, task.kind[2], task.kind[1])]
        /\ UNCHANGED <<thresholdStore, clock, engineVars, tunerVars, jobVars, apiVars, redisUp, custBucket, snapshots, signals, sent, decision, queueVars, latencies, started>>
        /\ Raised(raises)

\* await redis_client.zadd(latency_key, {member: latency_ms})
Zadd(t, raises) ==
    LET task == tasks[t]
        window == WindowOrder[task.w]
    IN  /\ task.pc = "zadd"
        /\ IF raises
           THEN /\ tasks' = [tasks EXCEPT ![t] = AfterWindow(task)]
                /\ UNCHANGED latencies
           ELSE /\ tasks' = [tasks EXCEPT ![t] = [task EXCEPT !.pc = "zcard"]]
                /\ latencies' = [latencies EXCEPT ![window] = Zadded(latencies[window], clock, task.kind[2], task.seq)]
        /\ UNCHANGED <<thresholdStore, clock, engineVars, tunerVars, jobVars, apiVars, decisionVars, queueVars, writes, started>>
        /\ Raised(raises)

\* count = await redis_client.zcard(latency_key); at or under the cap only
\* EXPIRE follows, which changes no content
Zcard(t, raises) ==
    LET task == tasks[t]
        count == Cardinality(latencies[WindowOrder[task.w]])
    IN  /\ task.pc = "zcard"
        /\ tasks' = [tasks EXCEPT ![t] =
                       IF raises \/ ~(count > ReservoirCap) THEN AfterWindow(task)
                       ELSE [task EXCEPT !.pc = "zrem", !.card = count]]
        /\ UNCHANGED <<thresholdStore, clock, engineVars, tunerVars, jobVars, apiVars, decisionVars, queueVars, latencies, writes, started>>
        /\ Raised(raises)

\* await redis_client.zremrangebyrank(latency_key, 0, count - 1001), then EXPIRE
Zrem(t, raises) ==
    LET task == tasks[t]
        window == WindowOrder[task.w]
    IN  /\ task.pc = "zrem"
        /\ tasks' = [tasks EXCEPT ![t] = AfterWindow(task)]
        /\ latencies' = IF raises THEN latencies
                        ELSE [latencies EXCEPT ![window] = zremrangebyrank(latencies[window], task.card - (ReservoirCap + 1))]
        /\ UNCHANGED <<thresholdStore, clock, engineVars, tunerVars, jobVars, apiVars, decisionVars, queueVars, writes, started>>
        /\ Raised(raises)

\* customer_data = await redis_client.get(customer_key)
CustGet(t, raises) ==
    /\ tasks[t].pc = "cust_get"
    /\ tasks' = [tasks EXCEPT ![t] =
                   IF raises THEN [tasks[t] EXCEPT !.pc = "store"]
                   ELSE [tasks[t] EXCEPT !.pc = "cust_setex", !.got = CustomerDoc(custBucket, tasks[t].kind[3], clock)]]
    /\ UNCHANGED <<thresholdStore, clock, engineVars, tunerVars, jobVars, apiVars, decisionVars, queueVars, latencies, writes, started>>
    /\ Raised(raises)

\* await redis_client.setex(customer_key, 120, ...)
CustSetex(t, raises) ==
    LET task == tasks[t]
    IN  /\ task.pc = "cust_setex"
        /\ tasks' = [tasks EXCEPT ![t] = [task EXCEPT !.pc = "store", !.got = {}]]
        /\ custBucket' = IF raises THEN custBucket ELSE SetCustomer(custBucket, task.got, task.kind[3], clock)
        /\ UNCHANGED <<thresholdStore, clock, engineVars, tunerVars, jobVars, apiVars, redisUp, agg, bucket1m, snapshots, signals, sent, decision, queueVars, latencies, writes, started>>
        /\ Raised(raises)

\* back in the caller: the sampling rule, the row added and committed
Store(t, draw) ==
    LET task == tasks[t]
        keep == should_store(task.kind[1], draw, samplingRate)
    IN  /\ task.pc = "store"
        /\ tasks' = [tasks EXCEPT ![t] = [task EXCEPT !.pc = "idle", !.stored = keep]]
        /\ signals' = IF keep THEN <<SignalRow(task.kind[1], task.kind[2], t, draw)>> \o signals ELSE signals
        /\ UNCHANGED <<thresholdStore, clock, engineVars, tunerVars, jobVars, apiVars, redisUp, agg, bucket1m, custBucket, snapshots, sent, decision, queueVars, latencies, writes, started, faults>>

AggregatorInit ==
    /\ thresholdStore = NoRecord
    /\ clock = 0
    /\ EnginesIdle
    /\ StoresInit
    /\ QueueIdle
    /\ AggregatorIdle
    /\ TunerIdle
    /\ JobsIdle
    /\ ApiIdle
    /\ samplingRate = SIGNAL_SAMPLING_RATE

\* two handlers at once, every Fast Store call succeeding
AggregatorNext ==
    \/ \E t \in TaskIds, kind \in UpdateKinds : Start(t, kind)
    \/ \E t \in TaskIds : Get(t, FALSE)
    \/ \E t \in TaskIds : Setex(t, FALSE)
    \/ \E t \in TaskIds : Zadd(t, FALSE)
    \/ \E t \in TaskIds : Zcard(t, FALSE)
    \/ \E t \in TaskIds : Zrem(t, FALSE)
    \/ \E t \in TaskIds : CustGet(t, FALSE)
    \/ \E t \in TaskIds : CustSetex(t, FALSE)
    \/ \E t \in TaskIds, draw \in Draws : Store(t, draw)

SpecAggregator == AggregatorInit /\ [][AggregatorNext]_vars

\* ------------------------------- failing Fast Store calls (SpecFaults)
\* One handler at a time; any Fast Store call may raise.

FaultsNext ==
    \/ \E kind \in UpdateKinds : Start("t1", kind)
    \/ \E raises \in BOOLEAN : Get("t1", raises)
    \/ \E raises \in BOOLEAN : Setex("t1", raises)
    \/ \E raises \in BOOLEAN : Zadd("t1", raises)
    \/ \E raises \in BOOLEAN : Zcard("t1", raises)
    \/ \E raises \in BOOLEAN : Zrem("t1", raises)
    \/ \E raises \in BOOLEAN : CustGet("t1", raises)
    \/ \E raises \in BOOLEAN : CustSetex("t1", raises)
    \/ \E draw \in Draws : Store("t1", draw)

SpecFaults == AggregatorInit /\ [][FaultsNext]_vars

\* ------------------------------------- the Threshold Store upsert (SpecUpsert)
\* update_thresholds applied to supplied values, in range or not

\* values a caller may hand to update_thresholds
SuppliedValues ==
    AdvisedRecords \cup
    {[cache_latency_ms |-> 5, circuit_breaker_error_rate |-> 30, queue_deferral_rpm |-> 80, load_shedding_rpm |-> 150, rate_limit_customer_rpm |-> 15],
     [cache_latency_ms |-> 500, circuit_breaker_error_rate |-> 0, queue_deferral_rpm |-> 80, load_shedding_rpm |-> 150, rate_limit_customer_rpm |-> 15],
     [cache_latency_ms |-> 500, circuit_breaker_error_rate |-> 30, queue_deferral_rpm |-> 200, load_shedding_rpm |-> 150, rate_limit_customer_rpm |-> 15],
     [cache_latency_ms |-> 500, circuit_breaker_error_rate |-> 30, queue_deferral_rpm |-> 80, load_shedding_rpm |-> 150, rate_limit_customer_rpm |-> 501],
     [cache_latency_ms |-> 500, circuit_breaker_error_rate |-> 30, queue_deferral_rpm |-> 150, load_shedding_rpm |-> 150, rate_limit_customer_rpm |-> 15],
     [cache_latency_ms |-> 500, circuit_breaker_error_rate |-> 30, queue_deferral_rpm |-> 9, load_shedding_rpm |-> 150, rate_limit_customer_rpm |-> 15],
     [cache_latency_ms |-> 500, circuit_breaker_error_rate |-> 101, queue_deferral_rpm |-> 80, load_shedding_rpm |-> 150, rate_limit_customer_rpm |-> 15],
     [cache_latency_ms |-> 500, circuit_breaker_error_rate |-> 30, queue_deferral_rpm |-> 80, load_shedding_rpm |-> 5001, rate_limit_customer_rpm |-> 15]}

\* update_thresholds called and the session committed
Upsert(values) ==
    /\ thresholdStore' = update_thresholds(thresholdStore, values)
    /\ tuner' = {[op |-> "upsert", input |-> values, before |-> thresholdStore]}
    /\ UNCHANGED <<clock, engineVars, decisionVars, queueVars, aggregatorVars, jobVars, apiVars>>

UpsertInit ==
    /\ thresholdStore = NoRecord
    /\ clock = 0
    /\ EnginesIdle
    /\ StoresInit
    /\ QueueIdle
    /\ AggregatorIdle
    /\ TunerIdle
    /\ JobsIdle
    /\ ApiIdle
    /\ samplingRate = SIGNAL_SAMPLING_RATE

UpsertNext == \E values \in SuppliedValues : Upsert(values)

SpecUpsert == UpsertInit /\ [][UpsertNext]_vars

\* ------------------------------------------- the tuner cycle (SpecTuner)
\* analyze_all_services for one endpoint: the metrics gate, the advisor
\* call, the upsert of a recommendation of medium or high confidence, the
\* commit at the end of the job.

\* fewer requests in the 1h window and the endpoint is skipped
MinAnalysisCount == 10

\* the bounds of the reasoning's length in ThresholdRecommendation
ReasoningMinLength == 50
ReasoningMaxLength == 1000

\* what the advisor hands back: the five values, the length of the
\* reasoning and the confidence; or the call raises
Output(t, reasoning_length, confidence, raises) ==
    [cache_latency_ms |-> t.cache_latency_ms,
     circuit_breaker_error_rate |-> t.circuit_breaker_error_rate,
     queue_deferral_rpm |-> t.queue_deferral_rpm,
     load_shedding_rpm |-> t.load_shedding_rpm,
     rate_limit_customer_rpm |-> t.rate_limit_customer_rpm,
     reasoning_length |-> reasoning_length,
     confidence |-> confidence,
     raises |-> raises]

Advised1 == [cache_latency_ms |-> 100, circuit_breaker_error_rate |-> 10, queue_deferral_rpm |-> 20, load_shedding_rpm |-> 50, rate_limit_customer_rpm |-> 5]
Advised2 == [cache_latency_ms |-> 250, circuit_breaker_error_rate |-> 50, queue_deferral_rpm |-> 45, load_shedding_rpm |-> 50, rate_limit_customer_rpm |-> 30]

AdvisorOutputs ==
    {Output(Advised1, ReasoningMinLength, "medium", FALSE),
     Output(Advised2, ReasoningMaxLength, "high", FALSE),
     Output(Advised2, ReasoningMinLength, "low", FALSE),
     Output(Advised1, ReasoningMinLength, "medium", TRUE),
     Output([Advised1 EXCEPT !.cache_latency_ms = 5001], ReasoningMinLength, "medium", FALSE),
     Output([Advised1 EXCEPT !.circuit_breaker_error_rate = 0], ReasoningMinLength, "high", FALSE),
     Output([Advised2 EXCEPT !.queue_deferral_rpm = 50], ReasoningMinLength, "high", FALSE),
     Output([Advised2 EXCEPT !.rate_limit_customer_rpm = 4], ReasoningMinLength, "medium", FALSE),
     Output(Advised2, ReasoningMinLength - 1, "medium", FALSE),
     Output(Advised1, ReasoningMaxLength + 1, "high", FALSE),
     Output(Advised1, ReasoningMinLength, "certain", FALSE)}

\* the whole of ThresholdRecommendation
SchemaValid(o) ==
    /\ ThresholdRecommendationValid(o)
    /\ o.reasoning_length >= ReasoningMinLength
    /\ o.reasoning_length <= ReasoningMaxLength
    /\ o.confidence \in {"low", "medium", "high"}

\* the output is handed on as the advisor gave it
analyze_service_thresholds_unvalidated(o) == IF o.raises THEN {} ELSE {o}

\* the structured call: the validated model, None for an exception of the
\* call or of the validation
analyze_service_thresholds(o) == IF o.raises \/ ~SchemaValid(o) THEN {} ELSE {o}

\* one cycle for the endpoint, to the end of the job
TunerCycle(count, o, commit_raises) ==
    LET recommendation == analyze_service_thresholds(o)
        updates == /\ count >= MinAnalysisCount
                   /\ recommendation /= {}
                   /\ \A r \in recommendation : r.confidence \in {"medium", "high"}
    IN  /\ thresholdStore' = IF updates /\ ~commit_raises
                             THEN update_thresholds(thresholdStore, Row(recommendation))
                             ELSE thresholdStore
        /\ tuner' = {[op |-> "cycle", input |-> o, count |-> count, commit_raises |-> commit_raises, before |-> thresholdStore]}
        /\ UNCHANGED <<clock, engineVars, decisionVars, queueVars, aggregatorVars, jobVars, apiVars>>

TunerNext ==
    \E count \in {MinAnalysisCount - 1, MinAnalysisCount}, o \in AdvisorOutputs, commit_raises \in BOOLEAN :
        TunerCycle(count, o, commit_raises)

SpecTuner == UpsertInit /\ [][TunerNext]_vars

\* ------------------------------ the tuner over the stores (SpecGate)
\* analyze_all_services reads the 1h metrics of every endpoint that has a
\* signals row through get_realtime_metrics, with its snapshot tier.

\* the endpoint after n signals of minute 0, one of them an error that was
\* stored, the others successes that the sampling left out
SeededCounts == {MinAnalysisCount - 1, MinAnalysisCount}

Seeded(n) ==
    /\ agg = [w \in Windows |-> {[count |-> n, sum_latency |-> 100 * (n - 1) + 600, errors |-> 1, last |-> 0, since |-> 0]}]
    /\ bucket1m = {[minute |-> 0, count |-> n, sum_latency |-> 100 * (n - 1) + 600, errors |-> 1]}
    /\ custBucket = {}
    /\ signals = <<SignalRow("error", 600, "http", 0)>>

\* one tuner job over the endpoint
TunerRun(o, commit_raises, importable) ==
    LET metrics == get_realtime_metrics(redisUp, agg["1h"], bucket1m, snapshots, "1h", clock, FALSE, importable)
        count == IF metrics = {} THEN 0 ELSE Row(metrics).count
    IN  /\ tuner = NoOp
        /\ Len(signals) > 0
        /\ ~importable => redisUp /\ agg["1h"] = {}
        /\ TunerCycle(count, o, commit_raises)

\* the job is over, its session closed
TunerDone ==
    /\ tuner /= NoOp
    /\ tuner' = NoOp
    /\ UNCHANGED <<thresholdStore, clock, engineVars, decisionVars, queueVars, aggregatorVars, jobVars, apiVars>>

GateInit ==
    /\ thresholdStore = NoRecord
    /\ clock = 0
    /\ EnginesIdle
    /\ redisUp = TRUE
    /\ \E n \in SeededCounts : Seeded(n)
    /\ snapshots = {}
    /\ sent = 0
    /\ decision = NoCall
    /\ QueueIdle
    /\ AggregatorIdle
    /\ TunerIdle
    /\ JobsIdle
    /\ ApiIdle
    /\ samplingRate = SIGNAL_SAMPLING_RATE

\* the stores move between the jobs
GateNext ==
    \/ \E now \in Instants : tuner = NoOp /\ Advance(now)
    \/ tuner = NoOp /\ RedisDown
    \/ tuner = NoOp /\ RedisUp
    \/ tuner = NoOp /\ snapshot_redis_aggregates
    \/ TunerDone
    \/ \E o \in AdvisorOutputs, commit_raises \in BOOLEAN, importable \in BOOLEAN : TunerRun(o, commit_raises, importable)

SpecGate == GateInit /\ [][GateNext]_vars

\* --------------------- decisions of a tuned endpoint (SpecTuned)
\* The decision query while the tuner commits records in between.

TunedNext ==
    \/ DecisionNext
    \/ decision = NoCall /\ TunerUpsert

SpecTuned == DecisionInit /\ [][TunedNext]_vars

\* ------------------------------------------- the hourly rollup (SpecRollup)
\* The signals rows carry here the columns the rollup reads: endpoint,
\* tenant_id, status, latency_ms and timestamp (server default now()); user
\* and service are fixed.  The hourly table is a bag of rows without the
\* serial id.

MaxRaw == 3
HourMinutes == 60
RollupInstants == {0, 30, 60, 90, 120}
RawKinds == {<<"/login", "a", "success", 100>>, <<"/login", "a", "error", 600>>, <<"/pay", "b", "500", 300>>}
NoCombination == <<>>

RawRow(endpoint, tenant_id, status, latency_ms, timestamp) ==
    [endpoint |-> endpoint, tenant_id |-> tenant_id, status |-> status,
     latency_ms |-> latency_ms, timestamp |-> timestamp]

\* the first character of a status string
FirstChar(status) ==
    CASE status = "success" -> "s"
      [] status = "error" -> "e"
      [] status = "500" -> "5"

\* s.status.startswith(('4', '5'))
startswith_4_5(status) == FirstChar(status) \in {"4", "5"}

\* now.replace(minute=0, ...) - timedelta(hours=1)
hour_start(now) == (now \div HourMinutes) * HourMinutes - HourMinutes

InHour(rows, start) ==
    SelectSeq(rows, LAMBDA s : s.timestamp >= start /\ s.timestamp < start + HourMinutes)

\* select(endpoint, tenant_id) ... distinct()
combinations(rows, start) ==
    {<<InHour(rows, start)[i].endpoint, InHour(rows, start)[i].tenant_id>> : i \in DOMAIN InHour(rows, start)}

OfCombination(rows, start, c) ==
    SelectSeq(InHour(rows, start), LAMBDA s : s.endpoint = c[1] /\ s.tenant_id = c[2])

RECURSIVE sorted(_)
sorted(xs) ==
    IF xs = <<>> THEN <<>>
    ELSE LET rest == sorted(Tail(xs))
             below == SelectSeq(rest, LAMBDA y : y <= Head(xs))
             above == SelectSeq(rest, LAMBDA y : y > Head(xs))
         IN  below \o <<Head(xs)>> \o above

RECURSIVE Total(_)
Total(xs) == IF xs = <<>> THEN 0 ELSE Head(xs) + Total(Tail(xs))

\* SignalAggregateHourly(...) of the signals of one combination in the hour
Aggregate(c, start, rows) ==
    LET lats == [i \in DOMAIN rows |-> rows[i].latency_ms]
        latencies_sorted == sorted(lats)
        n == Len(lats)
        errors == SelectSeq(rows, LAMBDA s : startswith_4_5(s.status))
        p50_idx == (n * 50) \div 100
        p95_idx == (n * 95) \div 100
        p99_idx == (n * 99) \div 100
        AtMost(i) == IF i < n - 1 THEN i ELSE n - 1
    IN  [endpoint |-> c[1], tenant_id |-> c[2], hour_bucket |-> start,
         avg_latency_ms |-> Rat(Total(lats), n),
         min_latency_ms |-> latencies_sorted[1],
         max_latency_ms |-> latencies_sorted[n],
         p50_latency_ms |-> latencies_sorted[p50_idx + 1],
         p95_latency_ms |-> latencies_sorted[AtMost(p95_idx) + 1],
         p99_latency_ms |-> latencies_sorted[AtMost(p99_idx) + 1],
         total_requests |-> n,
         error_count |-> Len(errors),
         success_count |-> n - Len(errors),
         error_rate |-> Rat(100 * Len(errors), n)]

HourlyKey(r) == <<r.endpoint, r.tenant_id, r.hour_bucket>>

idx_hourly_unique_absent(table, pending) == FALSE

\* the unique index refuses the insert of a row whose key the table holds
idx_hourly_unique(table, pending) ==
    \E r \in pending : \E q \in BagToSet(table) : HourlyKey(r) = HourlyKey(q)

\* the hours whose run committed
Committed ==
    UNION {u.done \cup (IF u.committed THEN {u.hour} ELSE {}) : u \in rollup}

\* a signal row reaches the table, stamped with the time of its insert
RawInsert(kind) ==
    /\ Len(signals) < MaxRaw
    /\ signals' = <<RawRow(kind[1], kind[2], kind[3], kind[4], clock)>> \o signals
    /\ UNCHANGED <<thresholdStore, clock, redisUp, agg, bucket1m, custBucket, snapshots, sent, decision, nonDecisionVars>>

Tick(now) ==
    /\ now > clock
    /\ clock' = now
    /\ UNCHANGED <<thresholdStore, decisionVars, nonDecisionVars>>

\* one run of the job; raising names the combination whose processing
\* raises, if any.  merge() of an object without primary key adds it; the
\* flush inserts the pending rows; any exception rolls the run back.
aggregate_signals_hourly(raising) ==
    LET start == hour_start(clock)
        pending == {Aggregate(c, start, OfCombination(signals, start, c)) : c \in combinations(signals, start)}
        fails == \/ raising \in combinations(signals, start)
                 \/ idx_hourly_unique(hourly, pending)
    IN  /\ start >= 0
        /\ raising \in combinations(signals, start) \cup {NoCombination}
        /\ hourly' = IF fails THEN hourly ELSE hourly (+) SetToBag(pending)
        /\ rollup' = {[hour |-> start, raising |-> raising, committed |-> ~fails,
                       before |-> hourly, done |-> Committed]}
        /\ UNCHANGED <<thresholdStore, clock, engineVars, decisionVars, queueVars, aggregatorVars, tunerVars, apiVars>>

RollupInit ==
    /\ thresholdStore = NoRecord
    /\ clock = 0
    /\ EnginesIdle
    /\ StoresInit
    /\ QueueIdle
    /\ AggregatorIdle
    /\ TunerIdle
    /\ JobsIdle
    /\ ApiIdle
    /\ samplingRate = SIGNAL_SAMPLING_RATE

RollupNext ==
    \/ \E kind \in RawKinds : RawInsert(kind)
    \/ \E now \in RollupInstants : Tick(now)
    \/ \E raising \in {<<"/login", "a">>, <<"/pay", "b">>, NoCombination} : aggregate_signals_hourly(raising)

SpecRollup == RollupInit /\ [][RollupNext]_vars

\* ------------------------------------------ the config endpoint (SpecConfig)
\* The endpoint starts in a minute that has seen n signals, k of them of
\* customer c1; service, endpoint and tenant are fixed and left out of the
\* body.

Seconds == {0, 1, 59}
TrafficSeeds == {<<3, 0>>, <<20, 20>>, <<100, 0>>, <<100, 20>>, <<200, 0>>, <<200, 20>>}

SeededTraffic(n, k) ==
    /\ agg = [w \in Windows |-> {[count |-> n, sum_latency |-> 100 * (n - 1) + 600, errors |-> 1, last |-> 0, since |-> 0]}]
    /\ bucket1m = {[minute |-> 0, count |-> n, sum_latency |-> 100 * (n - 1) + 600, errors |-> 1]}
    /\ custBucket = IF k = 0 THEN {} ELSE {[customer |-> "c1", minute |-> 0, count |-> k]}
    /\ signals = <<SignalRow("error", 600, "http", 0)>>

get_config_without_deferral(d, epoch) ==
    IF d.rate_limit_customer
    THEN [rate_limited_customer |-> TRUE, retry_after |-> 60 - (epoch % 60),
          status_code |-> 429, lead |-> "Per-customer rate limit: ", reason |-> d.reason]
    ELSE IF d.load_shedding
    THEN [load_shedding |-> TRUE, retry_after |-> 30, status_code |-> 503,
          reason |-> d.reason, priority_required |-> "high"]
    ELSE [cache_enabled |-> d.cache_enabled, circuit_breaker |-> d.circuit_breaker,
          rate_limited_customer |-> FALSE, queue_deferral |-> FALSE,
          load_shedding |-> FALSE, status_code |-> 200, reason |-> d.reason]

\* mutant: the wait ends one second before the minute does
get_config_short_wait(d, epoch) ==
    IF d.rate_limit_customer
    THEN [rate_limited_customer |-> TRUE, retry_after |-> 59 - (epoch % 60),
          status_code |-> 429, lead |-> "Per-customer rate limit: ", reason |-> d.reason]
    ELSE IF d.load_shedding
    THEN [load_shedding |-> TRUE, retry_after |-> 30, status_code |-> 503,
          reason |-> d.reason, priority_required |-> "high"]
    ELSE IF d.queue_deferral
    THEN [queue_deferral |-> TRUE, status_code |-> 202, reason |-> d.reason,
          estimated_delay |-> 10]
    ELSE [cache_enabled |-> d.cache_enabled, circuit_breaker |-> d.circuit_breaker,
          rate_limited_customer |-> FALSE, queue_deferral |-> FALSE,
          load_shedding |-> FALSE, status_code |-> 200, reason |-> d.reason]

\* the body returned for the decision d when time.time() reads epoch
get_config(d, epoch) ==
    IF d.rate_limit_customer
    THEN [rate_limited_customer |-> TRUE, retry_after |-> 60 - (epoch % 60),
          status_code |-> 429, lead |-> "Per-customer rate limit: ", reason |-> d.reason]
    ELSE IF d.load_shedding
    THEN [load_shedding |-> TRUE, retry_after |-> 30, status_code |-> 503,
          reason |-> d.reason, priority_required |-> "high"]
    ELSE IF d.queue_deferral
    THEN [queue_deferral |-> TRUE, status_code |-> 202, reason |-> d.reason,
          estimated_delay |-> 10]
    ELSE [cache_enabled |-> d.cache_enabled, circuit_breaker |-> d.circuit_breaker,
          rate_limited_customer |-> FALSE, queue_deferral |-> FALSE,
          load_shedding |-> FALSE, status_code |-> 200, reason |-> d.reason]

\* the handler after make_decision has answered: the alert is queued, the
\* body is built
GetConfig(second) ==
    /\ decision /= NoCall
    /\ response = NoCall
    /\ response' = {[body |-> get_config(Row(decision), clock * 60 + second),
                     epoch |-> clock * 60 + second,
                     alert_queued |-> Row(decision).send_alert]}
    /\ UNCHANGED <<thresholdStore, clock, engineVars, decisionVars, queueVars, aggregatorVars, tunerVars, jobVars, pct>>

\* the body is sent
ConfigDone ==
    /\ response /= NoCall
    /\ response' = NoCall
    /\ decision' = NoCall
    /\ UNCHANGED <<thresholdStore, clock, redisUp, agg, bucket1m, custBucket, snapshots, signals, sent, engineVars, queueVars, aggregatorVars, tunerVars, jobVars, pct>>

ConfigInit ==
    /\ thresholdStore = NoRecord
    /\ clock = 0
    /\ EnginesIdle
    /\ redisUp = TRUE
    /\ \E seed \in TrafficSeeds : SeededTraffic(seed[1], seed[2])
    /\ snapshots = {}
    /\ sent = 0
    /\ decision = NoCall
    /\ QueueIdle
    /\ AggregatorIdle
    /\ TunerIdle
    /\ JobsIdle
    /\ ApiIdle
    /\ samplingRate = SIGNAL_SAMPLING_RATE

ConfigNext ==
    \/ \E now \in Instants : decision = NoCall /\ Advance(now)
    \/ decision = NoCall /\ RedisDown
    \/ decision = NoCall /\ RedisUp
    \/ decision = NoCall /\ TunerUpsert
    \/ \E priority \in Priorities, customer \in Customers, one_min_fails \in BOOLEAN, importable \in BOOLEAN : MakeDecision(priority, customer, one_min_fails, importable)
    \/ \E second \in Seconds : GetConfig(second)
    \/ ConfigDone

SpecConfig == ConfigInit /\ [][ConfigNext]_vars

\* ------------------------------------- request validation (SpecPriority)

ValidPriorities == {"critical", "high", "medium", "low"}

\* the body of SignalSend.validate_priority
validate_priority(v) == v \in ValidPriorities

\* the validators pydantic runs on a SignalSend: validate_priority is a
\* classmethod without a validator decorator, so it is not among them
SignalSendValidators == {}

\* whether the body of POST /signals passes SignalSend
SignalSend(priority) ==
    \A f \in SignalSendValidators : f = "validate_priority" => validate_priority(priority)

\* POST /signals with a body of the given priority
SendSignal(priority, kind, draw) ==
    /\ SignalSend(priority)
    /\ Ingest(kind[1], kind[2], kind[3], draw)

\* GET /config: priority is a plain str query parameter
ConfigQuery(priority, customer) ==
    MakeDecision(priority, customer, FALSE, TRUE)

PriorityNext ==
    \/ \E priority \in Priorities, kind \in SignalKinds, draw \in Draws : SendSignal(priority, kind, draw)
    \/ \E priority \in Priorities, customer \in Customers : ConfigQuery(priority, customer)
    \/ \E second \in Seconds : GetConfig(second)
    \/ ConfigDone

SpecPriority == ConfigInit /\ [][PriorityNext]_vars

\* ------------------------------------- traffic without a gap (SpecWindow)

WindowInstants == {0, 30, 60, 90}

WindowNext ==
    \/ \E kind \in SignalKinds, draw \in Draws : Ingest(kind[1], kind[2], kind[3], draw)
    \/ \E now \in WindowInstants : Advance(now)
    \/ \E priority \in Priorities, customer \in Customers : MakeDecision(priority, customer, FALSE, TRUE)
    \/ DecisionRespond

SpecWindow == DecisionInit /\ [][WindowNext]_vars

\* ------------------------------------------- the scheduler (SpecServer)

JobIds == {"hourly_aggregation", "daily_aggregation", "cleanup_old_data", "snapshot_aggregates", "ai_background_analysis"}

\* the jobs startup() hands to the scheduler: the add_job of
\* ai_background_analysis is commented out
Scheduled == {"hourly_aggregation", "daily_aggregation", "cleanup_old_data", "snapshot_aggregates"}

\* a cron trigger fires a job.  The rollups and the cleanup work on tables
\* that neither the tuner nor the decision reads.
Fire(job) ==
    /\ job \in Scheduled
    /\ IF job = "snapshot_aggregates" THEN snapshot_redis_aggregates
       ELSE IF job = "ai_background_analysis"
       THEN \E o \in AdvisorOutputs, commit_raises \in BOOLEAN, importable \in BOOLEAN : TunerRun(o, commit_raises, importable)
       ELSE UNCHANGED vars

ServerNext ==
    \/ \E job \in JobIds : Fire(job)
    \/ \E kind \in SignalKinds, draw \in Draws : Ingest(kind[1], kind[2], kind[3], draw)
    \/ \E now \in Instants : Advance(now)

\* the scheduler keeps firing every job it was given
ServerFair == \A job \in JobIds : WF_vars(Fire(job))

SpecServer == ConfigInit /\ [][ServerNext]_vars /\ ServerFair

\* --------------------------------------- percentiles (SpecPercentile)

MaxSamples == 4
SampleValues == {0, 100, 101, 300, 600}
Percents == {50, 95, 99}

\* the ascending lists of at most MaxSamples samples
SortedLists ==
    {S \in UNION {[1 .. n -> SampleValues] : n \in 0 .. MaxSamples} :
        \A i, j \in DOMAIN S : i < j => S[i] <= S[j]}

_percentile_upper(sorted_data, p) ==
    IF sorted_data = <<>> THEN Rat(0, 1)
    ELSE LET n == Len(sorted_data)
             f == (p * (n - 1)) \div 100
             c == IF f + 1 < n THEN f + 1 ELSE f
         IN  Rat(sorted_data[c + 1], 1)

\* k = p/100 * (n - 1), f = int(k), d = k - f = (p(n-1) - 100 f) / 100; the
\* lists of the code count from 0
_percentile(sorted_data, p) ==
    IF sorted_data = <<>> THEN Rat(0, 1)
    ELSE LET n == Len(sorted_data)
             f == (p * (n - 1)) \div 100
             c == IF f + 1 < n THEN f + 1 ELSE f
             d100 == p * (n - 1) - 100 * f
         IN  Rat(100 * sorted_data[f + 1] + d100 * (sorted_data[c + 1] - sorted_data[f + 1]), 100)

\* p50, p95 and p99 of one list of samples
Percentiles(S) ==
    /\ pct' = {[data |-> S, p |-> [q \in Percents |-> _percentile(S, q)]]}
    /\ UNCHANGED <<thresholdStore, clock, engineVars, decisionVars, queueVars, aggregatorVars, tunerVars, jobVars, response>>

PercentileNext == \E S \in SortedLists : Percentiles(S)

SpecPercentile == DecisionInit /\ [][PercentileNext]_vars

\* ------------------------------------- the rate-limited client (SpecRetry)
\* A client answered 429 sends nothing more, waits retry_after seconds and
\* asks for the config again; the earlier answer is kept to compare with.

\* the client's next GET /config, retry_after seconds after the 429
Retry(priority) ==
    /\ decision /= NoCall
    /\ response /= NoCall
    /\ Row(response).body.status_code = 429
    /\ clock * 60 <= Row(response).epoch
    /\ clock' = (Row(response).epoch + Row(response).body.retry_after) \div 60
    /\ agg' = [w \in Windows |-> Live(agg[w], TtlMinutes(w), clock')]
    /\ bucket1m' = {b \in bucket1m : clock' < b.minute + BucketTtlMinutes}
    /\ custBucket' = {b \in custBucket : clock' < b.minute + BucketTtlMinutes}
    /\ LET metrics == get_realtime_metrics(redisUp, agg'["1h"], bucket1m', snapshots, "1h", clock', FALSE, TRUE)
           customer_rpm == get_customer_metrics(redisUp, custBucket', "c1", clock')
       IN  decision' = {make_decision(metrics, customer_rpm, priority, thresholdStore, signals)}
    /\ UNCHANGED <<thresholdStore, redisUp, snapshots, signals, sent, nonDecisionVars>>

RetryNext ==
    \/ ConfigNext
    \/ \E priority \in ValidPriorities : Retry(priority)

SpecRetry == ConfigInit /\ [][RetryNext]_vars

\* ----------------------------------- what an update touches (SpecFrame)
\* One handler at a time, signals of two clients and of no client, in two
\* minutes: buckets of the earlier minute and of the other client are stored
\* while the update runs.

FrameKinds == UpdateKinds \cup {<<"success", 100, "c2">>}

\* the next minute begins between two handlers
NextMinute ==
    /\ tasks["t1"].pc = "idle"
    /\ clock = 0
    /\ Advance(1)

FrameNext ==
    \/ \E kind \in FrameKinds : Start("t1", kind)
    \/ Get("t1", FALSE)
    \/ Setex("t1", FALSE)
    \/ Zadd("t1", FALSE)
    \/ Zcard("t1", FALSE)
    \/ Zrem("t1", FALSE)
    \/ CustGet("t1", FALSE)
    \/ CustSetex("t1", FALSE)
    \/ \E draw \in Draws : Store("t1", draw)
    \/ NextMinute

SpecFrame == AggregatorInit /\ [][FrameNext]_vars

\* ============================================================== the claims

\* The rules of the evaluation order, stated on the inputs of a call c
T1(c) ==
    c.customer_requests_per_minute.n
        > c.thresholds.rate_limit_customer_rpm * c.customer_requests_per_minute.d
RpmAbove(c, num, den) == c.requests_per_minute.n * den > num * c.requests_per_minute.d
T2a(c) ==
    /\ c.priority # "critical"
    /\ RpmAbove(c, c.thresholds.load_shedding_rpm, 1)
    /\ c.priority \in {"low", "medium"}
T2b(c) ==
    /\ c.priority # "critical"
    /\ RpmAbove(c, 4 * c.thresholds.load_shedding_rpm, 5)
    /\ c.priority = "low"
T2c(c) ==
    /\ c.priority # "critical"
    /\ RpmAbove(c, c.thresholds.queue_deferral_rpm, 1)
    /\ c.priority \in {"low", "medium"}
T3(c) == c.error_rate.n * 100 >= c.thresholds.circuit_breaker_error_rate * c.error_rate.d
T4(c) ==
    /\ c.error_rate.n * 200 >= c.thresholds.circuit_breaker_error_rate * c.error_rate.d
    /\ c.avg_latency.n * 5 >= 4 * c.thresholds.cache_latency_ms * c.avg_latency.d
T5(c) == c.avg_latency.n >= c.thresholds.cache_latency_ms * c.avg_latency.d

\* cache, breaker, rate limit, queue, shed, alert
Flags(v) ==
    <<v.cache_enabled, v.circuit_breaker, v.rate_limit_customer,
      v.queue_deferral, v.load_shedding, v.send_alert>>

\* the flags rules T3..T7 give
Tier3Flags(c) ==
    IF T3(c) THEN <<FALSE, TRUE, FALSE, FALSE, FALSE, TRUE>>
    ELSE IF T4(c) \/ T5(c) THEN <<TRUE, FALSE, FALSE, FALSE, FALSE, FALSE>>
    ELSE <<FALSE, FALSE, FALSE, FALSE, FALSE, FALSE>>

\* C1: whenever get_ai_tuned_decision is called with a per-client rpm strictly
\* above the per-client limit, the verdict has rate_limit_customer true and
\* cache_enabled, circuit_breaker, queue_deferral, load_shedding and
\* send_alert false, whatever the priority, global rpm, error rate and latency.
C1_RateLimitFirst ==
    \A c \in call :
        (c.engine = "tuned" /\ T1(c))
            => Flags(c.verdict) = <<FALSE, FALSE, TRUE, FALSE, FALSE, FALSE>>

\* a rate-limited call whose other inputs would shed and trip the breaker
C1_Witness ==
    \E c \in call :
        /\ c.engine = "tuned" /\ T1(c) /\ T2a(c) /\ T3(c) /\ T5(c)
        /\ c.thresholds.source = "ai"
        /\ c.verdict.rate_limit_customer

\* C2: a critical-priority call of either engine never has queue_deferral or
\* load_shedding, whatever the global rpm and thresholds; when the per-client
\* rpm is not above the limit its flags are exactly those of rules T3..T7 for
\* the error rate and the average latency.
C2_CriticalBypass ==
    \A c \in call :
        c.priority = "critical"
            => /\ ~c.verdict.queue_deferral
               /\ ~c.verdict.load_shedding
               /\ ~T1(c) => Flags(c.verdict) = Tier3Flags(c)

\* a critical call above the shed threshold that ends in the breaker
C2_Witness ==
    \E c \in call :
        /\ c.engine = "tuned" /\ c.priority = "critical" /\ ~T1(c)
        /\ RpmAbove(c, c.thresholds.load_shedding_rpm, 1)
        /\ T3(c) /\ c.verdict.circuit_breaker

\* C3: with the per-client rpm not above the limit and shed-rpm > queue-rpm,
\* get_ai_tuned_decision gives, for medium, load_shedding iff rpm > shed and
\* queue_deferral iff queue < rpm <= shed; for low, load_shedding iff
\* rpm > 0.8*shed and queue_deferral iff rpm > queue and rpm <= 0.8*shed; for
\* high neither; and every shed or queue verdict has cache_enabled true,
\* circuit_breaker false and send_alert false.
C3_Tier2Order ==
    \A c \in call :
        (/\ c.engine = "tuned"
         /\ ~T1(c)
         /\ c.thresholds.load_shedding_rpm > c.thresholds.queue_deferral_rpm)
            => LET shed == c.thresholds.load_shedding_rpm
                   queue == c.thresholds.queue_deferral_rpm
                   v == c.verdict
               IN  /\ c.priority = "medium"
                        => /\ v.load_shedding <=> RpmAbove(c, shed, 1)
                           /\ v.queue_deferral
                                <=> (RpmAbove(c, queue, 1) /\ ~RpmAbove(c, shed, 1))
                   /\ c.priority = "low"
                        => /\ v.load_shedding <=> RpmAbove(c, 4 * shed, 5)
                           /\ v.queue_deferral
                                <=> (RpmAbove(c, queue, 1) /\ ~RpmAbove(c, 4 * shed, 5))
                   /\ c.priority = "high"
                        => (~v.load_shedding /\ ~v.queue_deferral)
                   /\ (v.load_shedding \/ v.queue_deferral)
                        => (v.cache_enabled /\ ~v.circuit_breaker /\ ~v.send_alert)

\* a low-priority call between 0.8*shed and shed, above queue: shed, not queued
C3_Witness ==
    \E c \in call :
        /\ c.engine = "tuned" /\ ~T1(c) /\ c.priority = "low"
        /\ RpmAbove(c, 4 * c.thresholds.load_shedding_rpm, 5)
        /\ ~RpmAbove(c, c.thresholds.load_shedding_rpm, 1)
        /\ RpmAbove(c, c.thresholds.queue_deferral_rpm, 1)
        /\ c.verdict.load_shedding /\ ~c.verdict.queue_deferral

C5_CacheRule ==
    \A c \in call :
        (c.engine = "tuned" /\ ~T1(c) /\ ~T2a(c) /\ ~T2b(c) /\ ~T2c(c) /\ ~T3(c))
            => Flags(c.verdict)
                 = <<T5(c) \/ T4(c), FALSE, FALSE, FALSE, FALSE, FALSE>>

\* the latency exactly at the cache threshold with a low error rate
C5_Witness ==
    \E c \in call :
        /\ c.engine = "tuned" /\ ~T1(c) /\ ~T2a(c) /\ ~T2b(c) /\ ~T2c(c) /\ ~T3(c)
        /\ ~T4(c)
        /\ c.avg_latency.n = c.thresholds.cache_latency_ms * c.avg_latency.d
        /\ c.verdict.cache_enabled

\* the number of signals the endpoint's 1h window holds
WindowCount == IF agg["1h"] = {} THEN 0 ELSE Row(agg["1h"]).count

\* the answer allows the request and says that data is missing
AllowsForLackOfData(d) ==
    /\ ~d.cache_enabled /\ ~d.circuit_breaker /\ ~d.rate_limit_customer
    /\ ~d.queue_deferral /\ ~d.load_shedding
    /\ d.reason = NotEnoughData

\* C6: a decision query for an endpoint whose 1h window holds fewer than 3
\* signals answers allow, every flag false, with the insufficient-data reason,
\* whatever the priority, the customer's rate, the snapshot rows and the
\* signals rows are.
C6_MinimumDataGate ==
    \A d \in decision : WindowCount < MinSignals => AllowsForLackOfData(d)

\* the snapshot rows of the 1h window that pass the minimum-data gate
UsableSnapshots == {r \in snapshots : r.endpoint = <<KeyPrefix[7]>> /\ r.window = "1h" /\ r.count >= MinSignals}

\* C8: when the Fast Store is unreachable and a snapshot of the 1h window
\* exists (one that passes the gate), the decision is computed from the
\* snapshot's metrics; the raw signals rows are used only when neither an
\* aggregate nor a snapshot that passes the gate is available.
C8_SnapshotWhenFastStoreFails ==
    \A d \in decision :
        /\ (~redisUp /\ UsableSnapshots /= {}) =>
               /\ d.path = "realtime"
               /\ \E m \in d.metrics : m.source = "snapshot"
        /\ d.path = "raw" =>
               /\ ~redisUp \/ WindowCount < MinSignals
               /\ UsableSnapshots = {}

\* the two calls went to the same engine with the same inputs and the same
\* threshold record
SameInputs(c, m) ==
    /\ c.engine = m.engine
    /\ c.avg_latency = m.avg_latency
    /\ c.error_rate = m.error_rate
    /\ c.requests_per_minute = m.requests_per_minute
    /\ c.customer_requests_per_minute = m.customer_requests_per_minute
    /\ c.priority = m.priority
    /\ c.thresholds = m.thresholds

Expired(m) == clock >= msgs[m].published + MessageTtlMinutes

\* C9: a delivered message is acked only if its handling (decode, aggregate
\* update, the row when selected) ended without raising; when the handling
\* raised it was nacked with requeue and is ready for redelivery (until its
\* time to live runs out); no delivery is both acked and requeued; a message
\* is out of the queue only acked after a clean run or dead-lettered.
C9_AckOnlyAfterSuccess ==
    \A m \in MsgIds :
        /\ msgs[m].state \in {"new", "ready", "unacked", "acked", "dead"}
        /\ msgs[m].state = "acked" =>
               /\ msgs[m].result = "clean"
               /\ msgs[m].frames = <<"ack">>
        /\ msgs[m].result = "exception" =>
               /\ msgs[m].frames = <<"nack_requeue">>
               /\ msgs[m].state = "ready" \/ (msgs[m].state = "dead" /\ Expired(m))
        /\ ~\E i, j \in DOMAIN msgs[m].frames :
               /\ msgs[m].frames[i] = "ack"
               /\ msgs[m].frames[j] \in {"nack_requeue", "reject_requeue"}
        /\ msgs[m].state = "dead" => Expired(m)

\* one message was acked on its second delivery while another, whose
\* handling raised, is back in the queue
C9_Witness ==
    \E m, n \in MsgIds :
        /\ msgs[m].state = "acked" /\ msgs[m].deliveries = 2
        /\ msgs[n].state = "ready" /\ msgs[n].result = "exception" /\ msgs[n].body /= Garbage

\* the signals rows that came from message m
RowsOf(m) == {i \in 1..Len(signals) : signals[i].origin = m}

C11_DeadLetterAfterLimit ==
    \A m \in MsgIds :
        (msgs[m].deliveries >= RedeliveryLimit /\ msgs[m].body = Garbage /\ msgs[m].state /= "unacked")
            => msgs[m].state = "dead"

\* the messages that have entered signals_queue
Published == {m \in MsgIds : msgs[m].state /= "new"}

\* C12: every POST /signals answered 201 has published exactly one message
\* to signals_queue, and the aggregates and the signals rows of the signal are
\* written by the consumer, none by the request handler.
C12_IngestPublishes ==
    /\ Cardinality(Published) = sent
    /\ \A i \in 1..Len(signals) : signals[i].origin /= "http"

\* what the window's key holds: count 0 when the key is absent
StoredDoc(docs, bucket, window, now) ==
    LET got == GetDoc(docs, bucket, window, now)
    IN  IF got = {} THEN [count |-> 0, sum_latency |-> 0, errors |-> 0] ELSE Row(got)

Quiescent == \A t \in TaskIds : tasks[t].pc = "idle"

\* C13: once the concurrent updates of a key have all ended, the key holds
\* count = their number, sum_latency = the sum of their latencies and
\* errors = the number of errors among them: no update is lost.
C13_NoLostUpdate ==
    Quiescent => \A w \in AllWindows : StoredDoc(agg, bucket1m, w, clock) = writes[w]

\* C14: while no key expires, the count stored under a window's key never
\* decreases from one state to the next, whatever the interleaving.
C14_CountNeverDecreases ==
    [][\A w \in AllWindows : StoredDoc(agg', bucket1m', w, clock').count >= StoredDoc(agg, bucket1m, w, clock).count]_vars

\* C15: every window aggregate has 0 <= errors <= count and sum_latency >= 0
\* (the latencies counted being >= 0), whatever the interleaving of the
\* updates and however often a signal is counted again.
C15_AggregateBounds ==
    \A w \in AllWindows : \A d \in GetDoc(agg, bucket1m, w, clock) :
        0 <= d.errors /\ d.errors <= d.count /\ d.sum_latency >= 0

\* updates have interleaved to the point of losing one, an error is counted
C15_Witness ==
    /\ Quiescent
    /\ \E w \in AllWindows :
        /\ StoredDoc(agg, bucket1m, w, clock).count < writes[w].count
        /\ StoredDoc(agg, bucket1m, w, clock).errors >= 1

\* C16: a handler that has committed the Signal row has, by the end of its
\* run, counted the signal in the 1m, the 1h and the 24h aggregate, also
\* when Fast Store calls of the run failed.
C16_StoredSignalIsCounted ==
    \A t \in TaskIds :
        (tasks[t].pc = "idle" /\ tasks[t].stored) => tasks[t].counted = AllWindows

\* C17: the latency sorted set of every window holds at most the cap of
\* samples in every reachable state, whatever the interleaving.
C17_ReservoirWithinCap ==
    \A w \in AllWindows : Cardinality(latencies[w]) <= ReservoirCap

\* C18: every sample that leaves a reservoir is the one ingested earliest of
\* those it held.
C18_OldestRemoved ==
    [][\A w \in AllWindows : \A e \in latencies[w] \ latencies'[w] : \A o \in latencies[w] : e.seq <= o.seq]_vars

\* C19: after an upsert, whatever the values supplied, the stored record is
\* within the ranges with shed above queue; an upsert of values outside
\* them is rejected and leaves the record as it was.
C19_UpsertValidates ==
    \A u \in tuner : u.op = "upsert" =>
        /\ \A r \in thresholdStore : ThresholdRecommendationValid(r)
        /\ (~ThresholdRecommendationValid(u.input) => thresholdStore = u.before)

\* the advisor's output as the claim lists its failures
FailsValidation(o) ==
    \/ o.cache_latency_ms < 10 \/ o.cache_latency_ms > 5000
    \/ o.circuit_breaker_error_rate < 1 \/ o.circuit_breaker_error_rate > 100
    \/ o.queue_deferral_rpm < 10 \/ o.queue_deferral_rpm > 1000
    \/ o.load_shedding_rpm < 20 \/ o.load_shedding_rpm > 5000
    \/ o.rate_limit_customer_rpm < 5 \/ o.rate_limit_customer_rpm > 500
    \/ o.load_shedding_rpm <= o.queue_deferral_rpm
    \/ o.reasoning_length < 50 \/ o.reasoning_length > 1000
    \/ o.confidence \notin {"low", "medium", "high"}

\* C20: a tuner cycle whose advisor call raised, or whose advisor output
\* fails the schema, leaves the Threshold Store record as it was before.
C20_FailedAdviceChangesNothing ==
    \A u \in tuner : (u.op = "cycle" /\ (u.input.raises \/ FailsValidation(u.input))) => thresholdStore = u.before

\* an output that fails the schema with high confidence, enough requests and
\* a working commit, on an endpoint that has a record
C20_Witness ==
    \E u \in tuner :
        /\ u.op = "cycle"
        /\ ~u.input.raises
        /\ FailsValidation(u.input)
        /\ u.input.confidence = "high"
        /\ u.count >= MinAnalysisCount
        /\ ~u.commit_raises
        /\ u.before /= NoRecord

\* the advised record passes the schema with confidence medium or high
Accepted(o) == ~o.raises /\ ~FailsValidation(o) /\ o.confidence \in {"medium", "high"}

\* C21: a tuner cycle creates or changes the endpoint's record only if the
\* endpoint's 1h window holds at least 10 signals and the advisor returned a
\* valid record of confidence medium or high; with confidence low the record
\* is unchanged; after such an upsert a read of the thresholds returns the
\* five advised values with the tuned source.
C21_TunerGate ==
    \A u \in tuner : u.op = "cycle" =>
        /\ thresholdStore /= u.before => (WindowCount >= MinAnalysisCount /\ Accepted(u.input))
        /\ u.input.confidence = "low" => thresholdStore = u.before
        /\ (u.count >= MinAnalysisCount /\ Accepted(u.input) /\ ~u.commit_raises) =>
               get_all_thresholds(thresholdStore) = WithSource(u.input, "ai")

\* what the tuned engine answers on the metrics the decision was computed
\* from, with the thresholds the endpoint has now
ExpectedOf(d) ==
    LET last == LatestRows(signals)
        thresholds == get_all_thresholds(thresholdStore)
    IN  IF d.path = "realtime"
        THEN LET m == Row(d.metrics)
             IN  get_ai_tuned_decision(m.avg_latency, m.error_rate, m.requests_per_minute, Rat(d.customer_rpm, 1), "critical", thresholds)
        ELSE get_ai_tuned_decision(Rat(SumLatency(last), Len(last)), Rat(ErrorCount(last), Len(last)), Rat(0, 1), Rat(0, 1), "critical", thresholds)

\* C22: every decision computed from metrics, whichever tier supplied them,
\* is evaluated against the endpoint's thresholds (the committed record, the
\* defaults when there is none): its cache and breaker flags are those the
\* thresholds give and its reasoning carries their source tag.
C22_DecisionsUseStoredThresholds ==
    \A d \in decision : d.path /= "insufficient" =>
        /\ d.reason.prefix = Prefix(get_all_thresholds(thresholdStore))
        /\ (~d.rate_limit_customer /\ ~d.load_shedding /\ ~d.queue_deferral) =>
               /\ d.cache_enabled = ExpectedOf(d).cache_enabled
               /\ d.circuit_breaker = ExpectedOf(d).circuit_breaker

\* C23: running the hourly rollup again for an hour whose run committed
\* leaves the hourly rows as they were, and every (endpoint, tenant_id, hour
\* bucket) with signals in a rolled-up hour has exactly one hourly row.
C23_RollupIdempotent ==
    /\ \A r \in BagToSet(hourly) : CopiesIn(r, hourly) = 1
    /\ \A r, q \in BagToSet(hourly) : HourlyKey(r) = HourlyKey(q) => r = q
    /\ \A h \in Committed : \A c \in combinations(signals, h) :
           \E r \in BagToSet(hourly) : HourlyKey(r) = <<c[1], c[2], h>>
    /\ \A u \in rollup : u.hour \in u.done => hourly = u.before

C23_Witness ==
    \E u \in rollup :
        /\ u.hour \in u.done
        /\ u.raising = NoCombination
        /\ Cardinality(combinations(signals, u.hour)) = 2
        /\ Cardinality(BagToSet(hourly)) = 2

\* C30: every hourly row counts the raw signals of its combination in its
\* hour: total_requests is their number, error_count the number of those
\* with status error, success_count the difference, error_count <= total.
C30_RollupCounts ==
    \A r \in BagToSet(hourly) :
        LET rows == OfCombination(signals, r.hour_bucket, <<r.endpoint, r.tenant_id>>)
        IN  /\ r.total_requests = Len(rows)
            /\ r.error_count = ErrorCount(rows)
            /\ r.success_count = r.total_requests - r.error_count
            /\ r.error_count <= r.total_requests

\* C24: the body of a config answer has status_code 429 exactly when the
\* decision limits the customer, 503 exactly when it sheds load, 202 exactly
\* when it defers, and 200 otherwise; a 429 carries retry_after = 60 - (epoch
\* mod 60), a 503 retry_after = 30, a 202 estimated_delay = 10.
C24_StatusCodes ==
    \A r \in response : \A d \in decision :
        /\ r.body.status_code = 429 <=> d.rate_limit_customer
        /\ r.body.status_code = 503 <=> d.load_shedding
        /\ r.body.status_code = 202 <=> d.queue_deferral
        /\ r.body.status_code = 200 <=> ~(d.rate_limit_customer \/ d.load_shedding \/ d.queue_deferral)
        /\ r.body.status_code \in {429, 503, 202, 200}
        /\ r.body.status_code = 429 => r.body.retry_after = 60 - (r.epoch % 60)
        /\ r.body.status_code = 503 => r.body.retry_after = 30
        /\ r.body.status_code = 202 => r.body.estimated_delay = 10

C24_Witness ==
    \E r \in response : \E d \in decision :
        /\ d.queue_deferral
        /\ r.body.status_code = 202
        /\ r.body.estimated_delay = 10

\* C25: no signal and no config query whose priority is outside critical,
\* high, medium, low gets past validation: no step is such a signal reaching
\* the aggregator or such a query reaching the decision engine.
C25_InvalidPriorityRejected ==
    [][\A priority \in Priorities \ ValidPriorities :
          /\ ~ \E kind \in SignalKinds, draw \in Draws : SendSignal(priority, kind, draw)
          /\ ~ \E customer \in Customers : ConfigQuery(priority, customer)]_vars

\* the newest snapshot row of the endpoint's 1h window
NewestSnapshot ==
    {r \in snapshots : /\ r.endpoint = <<KeyPrefix[7]>> /\ r.window = "1h"
                       /\ \A o \in snapshots : (o.endpoint = r.endpoint /\ o.window = r.window) => o.snapshot_at <= r.snapshot_at}

\* C26: a decision computed from a snapshot uses a snapshot taken at most 30
\* minutes before the query.
C26_SnapshotIsFresh ==
    \A d \in decision : \A m \in d.metrics :
        (d.path = "realtime" /\ m.source = "snapshot") => \A r \in NewestSnapshot : clock - r.snapshot_at <= SnapshotMaxAgeMinutes

\* C27: every snapshot row has window 1h or 24h and the user, service and
\* endpoint of the aggregate it copies; the 1m buckets and the customers'
\* buckets leave no snapshot row.
C27_SnapshotRows ==
    \A r \in snapshots :
        /\ r.window \in Windows
        /\ r.user_id = KeyPrefix[3]
        /\ r.service_name = KeyPrefix[5]
        /\ r.endpoint = <<KeyPrefix[7]>>

\* C28: the statistics of a window count no signal ingested longer ago than
\* the window's length: in every document a query could read, and in the
\* metrics a decision was computed from, the first signal counted is at
\* most one hour (24 hours) old.
C28_SlidingWindow ==
    /\ \A w \in Windows : \A a \in agg[w] : clock - a.since <= WindowMinutes(w)
    /\ \A d \in decision : \A m \in d.metrics :
           m.source = "redis" => \A a \in agg["1h"] : clock - a.since <= WindowMinutes("1h")

\* C29: an exception raised while the rollup processes one combination does
\* not stop the run: the other combinations of the hour get their rows, and
\* these are committed.
C29_RollupSurvivesFailure ==
    \A u \in rollup :
        (u.raising /= NoCombination /\ u.hour \notin u.done) =>
            \A c \in combinations(signals, u.hour) \ {u.raising} :
                \E r \in BagToSet(hourly) : HourlyKey(r) = <<c[1], c[2], u.hour>>

\* C31: an endpoint that keeps at least 10 signals in its 1h window
\* eventually has a tuned Threshold Record.
C31_EventuallyTuned ==
    ([](WindowCount >= MinAnalysisCount)) => <>(thresholdStore /= NoRecord)

RatLE(a, b) == a.n * b.d <= b.n * a.d
RatEQ(a, b) == a.n * b.d = b.n * a.d

\* S[f] + d (S[min(f+1, n-1)] - S[f]) with k = q (n-1) / 100, f = floor(k),
\* d = k - f, for a list S counted from 1
Interpolated(S, q) ==
    LET n == Len(S)
        f == CHOOSE x \in 0 .. n - 1 : 100 * x <= q * (n - 1) /\ q * (n - 1) < 100 * (x + 1)
        up == IF f + 1 < n - 1 THEN f + 1 ELSE n - 1
    IN  Rat(100 * S[f + 1] + (q * (n - 1) - 100 * f) * (S[up + 1] - S[f + 1]), 100)

\* C32: for a non-empty ascending list the percentile is the interpolated
\* value, lies between the smallest and the largest sample and does not
\* decrease from p50 to p95 to p99; for the empty list it is 0.
C32_Percentile ==
    \A r \in pct :
        IF r.data = <<>> THEN \A q \in Percents : RatEQ(r.p[q], Rat(0, 1))
        ELSE /\ \A q \in Percents :
                  /\ RatEQ(r.p[q], Interpolated(r.data, q))
                  /\ RatLE(Rat(r.data[1], 1), r.p[q])
                  /\ RatLE(r.p[q], Rat(r.data[Len(r.data)], 1))
             /\ RatLE(r.p[50], r.p[95])
             /\ RatLE(r.p[95], r.p[99])

C32_Witness ==
    \E r \in pct :
        /\ Len(r.data) = MaxSamples
        /\ r.data[1] < r.data[2] /\ r.data[2] < r.data[3]
        /\ ~RatEQ(r.p[50], Rat(r.data[2], 1))
        /\ ~RatEQ(r.p[50], r.p[95])

\* C33: on every input the hard-coded engine returns the same six flags as
\* the tuned engine run with the default thresholds (500 ms, 0.30, 80, 150, 15).
C33_EnginesAgree ==
    \A c \in call :
        c.engine = "hard" =>
            Flags(c.verdict)
              = Flags(get_ai_tuned_decision(c.avg_latency, c.error_rate,
                          c.requests_per_minute, c.customer_requests_per_minute,
                          c.priority, get_all_thresholds(NoRecord)))

\* the traffic-management and breaker flags a verdict has set
ActionsSet(v) ==
    {f \in {"rate_limit_customer", "load_shedding", "queue_deferral", "circuit_breaker"} : v[f]}

C35_ShedOnlyAboveQueue ==
    \A c \in call :
        /\ c.engine = "tuned"
        /\ ThresholdRecommendationValid(c.thresholds)
        /\ c.thresholds.load_shedding_rpm > c.thresholds.queue_deferral_rpm
        /\ c.verdict.load_shedding
        => RatGT(c.requests_per_minute, c.thresholds.queue_deferral_rpm, 1)

\* C36: the retry_after of a 429 answer computed at second t is between 1
\* and 60, the per-client minute bucket at t + retry_after is another one
\* than at t, and the client, having sent nothing since, is not rate-limited
\* when it asks again at t + retry_after.
C36_RetryAfter ==
    \A r \in response : \A d \in decision :
        r.body.status_code = 429 =>
            /\ r.body.retry_after \in 1 .. 60
            /\ (r.epoch + r.body.retry_after) \div 60 /= r.epoch \div 60
            /\ clock * 60 > r.epoch => ~d.rate_limit_customer

\* a client limited in the last second of a minute asked again one second
\* later and was not limited, while its old bucket was still stored
C36_Witness ==
    \E r \in response : \E d \in decision :
        /\ r.body.status_code = 429
        /\ r.body.retry_after = 1
        /\ clock * 60 = r.epoch + 1
        /\ custBucket /= {}
        /\ ~d.rate_limit_customer

\* a Fast Store call of update_realtime_aggregate made by handler t
AggregatorStep(t) ==
    \/ Get(t, FALSE) \/ Setex(t, FALSE) \/ Zadd(t, FALSE) \/ Zcard(t, FALSE)
    \/ Zrem(t, FALSE) \/ CustGet(t, FALSE) \/ CustSetex(t, FALSE)

\* the keys other than the endpoint's bucket of the minute, its window
\* aggregates and reservoirs and client c's bucket of the minute
OtherBuckets(b1m, cust, c) ==
    <<{b \in b1m : b.minute /= clock},
      {b \in cust : ~(b.minute = clock /\ b.customer = c /\ c /= NoCustomer)}>>

C38_OneRowPerMessage ==
    \A m \in MsgIds : Cardinality(RowsOf(m)) <= 1

\* C39: with a single writer, between two updates the reservoir of a window
\* holds as many samples as the window has counted signals, up to the cap:
\* signals of equal latency ingested in the same second are all retained.
C39_ReservoirSize ==
    tasks["t1"].pc = "idle" =>
        \A w \in Windows :
            agg[w] /= {} =>
                Cardinality(latencies[w])
                  = (IF Row(agg[w]).count < ReservoirCap THEN Row(agg[w]).count ELSE ReservoirCap)

============================================================================
